---- MODULE Spec2Model ----
(***************************************************************************)
(* dialogue-rs: the arena tree (tree.rs) and the StateTree engine          *)
(* (state_tree.rs) that is built from a parsed Script and driven by        *)
(* tick / choose / goto.                                                   *)
(*                                                                         *)
(* Option<T> is modelled as a sequence of length 0 (None) or 1 (Some).     *)
(* A Command payload is [name, suffix]; the engine reads only the name     *)
(* (Command::is_choice), so the prefix is left out and the suffix is the   *)
(* number of the text line the command was written on, which makes every   *)
(* command of a script distinguishable.                                    *)
(***************************************************************************)
EXTENDS Integers, Sequences, FiniteSets, TLC

\* ------------------------------------------------------------------ bounds
MaxLines == 3
MaxDepth == 2
MaxTicks == 2
MaxNodes == 3
MaxChoice == 1

\* The node identity is a u16 (AtomicU16): fetch_add wraps at 2^16.
IdModulus == 65536

None == <<>>
Some(x) == <<x>>

MarkerNames == {"START", "END"}
UnknownMarker == "NOPE"
CommandNames == {"SAY", "CHOICE"}
\* The values ID_GENERATOR may hold when a tree is built: the process has built
\* no tree before, or earlier trees have used all but the last two identities.
BaseIds == {0, IdModulus - 2}
\* A script's nodes are numbered from the second value, so that the
\* identities of a script with three commands wrap around.
ScriptBaseIds == {IdModulus - 2}

\* --------------------------------------------------------- document model
Command(name, suffix) == [name |-> name, suffix |-> suffix]

is_choice(command) == command.name = "CHOICE"

CommandLine(name, suffix) ==
  [kind |-> "Command", name |-> name, suffix |-> suffix, inner |-> <<>>]

MarkerLine(name) ==
  [kind |-> "Marker", name |-> name, suffix |-> 0, inner |-> <<>>]

CommentElement ==
  [kind |-> "Comment", name |-> "", suffix |-> 0, inner |-> <<>>]

Block(inner) ==
  [kind |-> "Block", name |-> "", suffix |-> 0, inner |-> inner]

\* ------------------------------------------------------------ script text
\* A script text is a sequence of lines [kind, name, depth]; depth is the
\* number of 4-space indentation units in front of the line.
TextLine(kind, name, depth) == [kind |-> kind, name |-> name, depth |-> depth]

LineKinds ==
  {<<"Command", n>> : n \in CommandNames}
    \cup {<<"Marker", m>> : m \in MarkerNames}
    \cup {<<"Comment", "">>}

\* A line may be indented at most one level deeper than the line before it,
\* the first line is not indented, and a marker name is declared once.
CanFollow(t, k, d) ==
  /\ d <= (IF t = <<>> THEN 0 ELSE t[Len(t)].depth + 1)
  /\ k[1] = "Marker" =>
       \A i \in 1..Len(t) : ~(t[i].kind = "Marker" /\ t[i].name = k[2])

RECURSIVE Texts(_)
Texts(n) ==
  IF n = 0 THEN {<<>>}
  ELSE LET shorter == Texts(n - 1)
           longest == {t \in shorter : Len(t) = n - 1}
       IN shorter \cup
          {Append(x[1], TextLine(x[2][1], x[2][2], x[3])) :
             x \in {y \in longest \X LineKinds \X (0..MaxDepth) :
                      CanFollow(y[1], y[2], y[3])}}

\* The scripts of the engine's tests and of the specification's scenario.
FlatText(k) ==
  <<TextLine("Marker", "START", 0)>>
    \o [i \in 1..k |-> TextLine("Command", "SAY", 0)]
    \o <<TextLine("Marker", "END", 0)>>

ChoiceScenarioText ==
  <<TextLine("Marker", "START", 0),
    TextLine("Command", "SAY", 0),
    TextLine("Command", "CHOICE", 0),
    TextLine("Command", "SAY", 1),
    TextLine("Command", "CHOICE", 0),
    TextLine("Command", "SAY", 1),
    TextLine("Marker", "END", 0)>>

JimiText ==
  <<TextLine("Marker", "START", 0),
    TextLine("Command", "SAY", 0),
    TextLine("Command", "CHOICE", 0),
    TextLine("Command", "SAY", 1),
    TextLine("Command", "SAY", 0),
    TextLine("Marker", "END", 0)>>

\* The branching dialogue of the crate documentation: two lines, the second
\* owning two options, each a CHOICE line with a block (the first block ends
\* with a GOTO back to START), and the line after the group.
BranchingText ==
  <<TextLine("Marker", "START", 0),
    TextLine("Command", "SAY", 0),
    TextLine("Command", "SAY", 0),
    TextLine("Command", "CHOICE", 1),
    TextLine("Command", "SAY", 2),
    TextLine("Command", "GOTO", 2),
    TextLine("Command", "CHOICE", 1),
    TextLine("Command", "SAY", 2),
    TextLine("Command", "SAY", 0),
    TextLine("Marker", "END", 0)>>

ScenarioTexts ==
  {FlatText(2), FlatText(3), ChoiceScenarioText, JimiText, BranchingText}

\* The element a text line parses to; a command's suffix is its line number.
LineElement(line, number) ==
  CASE line.kind = "Command" -> CommandLine(line.name, number)
    [] line.kind = "Marker" -> MarkerLine(line.name)
    [] OTHER -> CommentElement

\* The length of the longest prefix of lines[from..] indented deeper than d.
RECURSIVE DeeperRun(_, _, _)
DeeperRun(lines, from, d) ==
  IF from > Len(lines) \/ lines[from].depth <= d THEN 0
  ELSE 1 + DeeperRun(lines, from + 1, d)

\* Script::parse: the elements of lines[from..to] at indentation depth d; a
\* run of deeper lines becomes one Block, one level deeper.
RECURSIVE ParseAt(_, _, _, _)
ParseAt(lines, from, to, d) ==
  IF from > to THEN <<>>
  ELSE IF lines[from].depth <= d
       THEN <<LineElement(lines[from], from)>> \o ParseAt(lines, from + 1, to, d)
       ELSE LET n == DeeperRun(SubSeq(lines, 1, to), from, d)
            IN <<Block(ParseAt(lines, from, from + n - 1, d + 1))>>
                 \o ParseAt(lines, from + n, to, d)

Parse(text) == ParseAt(text, 1, Len(text), 0)

\* ------------------------------------------------------------- arena tree
NewTree == [branches |-> <<>>, parent_child_relationships |-> <<>>]

Branch(id, data) == [id |-> id, data |-> data]

\* The first of the indices in hits (the positions a search matches), or 0.
FirstIndex(hits) ==
  IF hits = {} THEN 0 ELSE CHOOSE i \in hits : \A j \in hits : i <= j

\* A get_next_id that reads the generator without advancing it.
get_next_id_load_only(gen) == [id |-> gen, gen |-> gen]

get_next_id(gen) == [id |-> gen, gen |-> (gen + 1) % IdModulus]

first(tree) ==
  IF tree.branches = <<>> THEN None ELSE Some(tree.branches[1].id)

get_by_id(tree, id) ==
  LET i == FirstIndex({j \in 1..Len(tree.branches) : tree.branches[j].id = id})
  IN IF i = 0 THEN None ELSE Some(tree.branches[i].data)

\* A children_of that lists the newest child first.
children_of_newest_first(tree, id) ==
  LET OfParent(r) == r[1] = id /\ get_by_id(tree, r[2]) # None
      rels == SelectSeq(tree.parent_child_relationships, OfParent)
  IN [i \in 1..Len(rels) |-> rels[Len(rels) + 1 - i][2]]

children_of(tree, id) ==
  LET OfParent(r) == r[1] = id /\ get_by_id(tree, r[2]) # None
      rels == SelectSeq(tree.parent_child_relationships, OfParent)
  IN [i \in 1..Len(rels) |-> rels[i][2]]

parent_of(tree, id) ==
  LET rels == tree.parent_child_relationships
      i == FirstIndex({j \in 1..Len(rels) : rels[j][2] = id})
  IN IF i = 0 THEN None
     ELSE LET parent_id == rels[i][1]
          IN IF get_by_id(tree, parent_id) = None THEN None ELSE Some(parent_id)

\* A next_sibling_of that returns the first of the other children.
next_sibling_of_any_other(tree, id) ==
  LET parent == parent_of(tree, id)
  IN IF parent = None THEN None
     ELSE LET children == children_of(tree, parent[1])
              Other(c) == c # id
              others == SelectSeq(children, Other)
          IN IF others = <<>> THEN None ELSE Some(others[1])

next_sibling_of(tree, id) ==
  LET parent == parent_of(tree, id)
  IN IF parent = None THEN None
     ELSE LET children == children_of(tree, parent[1])
              i == FirstIndex({j \in 1..Len(children) : children[j] = id})
          IN IF i = 0 \/ i = Len(children) THEN None
             ELSE IF get_by_id(tree, children[i + 1]) = None THEN None
             ELSE Some(children[i + 1])

previous_sibling_of(tree, id) ==
  LET parent == parent_of(tree, id)
  IN IF parent = None THEN None
     ELSE LET children == children_of(tree, parent[1])
              n == Len(children)
              reversed == [i \in 1..n |-> children[n + 1 - i]]
              i == FirstIndex({j \in 1..n : reversed[j] = id})
          IN \* The loop walks the children backwards and returns what it has
             \* seen just before reaching id.
             IF i = 0 \/ i = 1 THEN None
             ELSE IF get_by_id(tree, reversed[i - 1]) = None THEN None
             ELSE Some(reversed[i - 1])

RECURSIVE next(_, _)
next(tree, id) ==
  LET sibling == next_sibling_of(tree, id)
  IN IF sibling # None THEN sibling
     ELSE LET parent == parent_of(tree, id)
          IN IF parent = None THEN None ELSE next(tree, parent[1])

\* push and push_with_parent return the tree, the identity of the new node,
\* the advanced identity generator and whether the call panicked (the
\* debug_assert of push_with_parent fires in a debug build only).
push(tree, gen, data) ==
  LET n == get_next_id(gen)
  IN [tree |-> [tree EXCEPT !.branches = Append(@, Branch(n.id, data))],
      id |-> n.id, gen |-> n.gen, panicked |-> FALSE]

push_with_parent(tree, gen, data, parent, debug) ==
  LET n == get_next_id(gen)
      branches == Append(tree.branches, Branch(n.id, data))
      found == \E i \in 1..Len(branches) : branches[i].id = parent
  IN IF debug /\ ~found
     THEN [tree |-> [tree EXCEPT !.branches = branches],
           id |-> n.id, gen |-> n.gen, panicked |-> TRUE]
     ELSE [tree |-> [branches |-> branches,
                     parent_child_relationships |->
                       Append(tree.parent_child_relationships, <<parent, n.id>>)],
           id |-> n.id, gen |-> n.gen, panicked |-> FALSE]

\* ------------------------------------------------------------ StateTree::new
\* HashMap::insert: an existing entry for the key is overwritten.
MapInsert(map, key, value) ==
  [k \in DOMAIN map \cup {key} |-> IF k = key THEN value ELSE map[k]]

EmptyMap == [k \in {} |-> 0]

NewBuild(gen) ==
  [tree |-> NewTree, marker_to_node_id |-> EmptyMap, last_id |-> None,
   marker_awaiting_node_id |-> None, gen |-> gen, panicked |-> FALSE]

\* A Command arm that binds the pending marker to the node created before
\* this one, when there is one.
TraverseCommandBindsPrevious(b, parent, element, debug) ==
  LET data == Command(element.name, element.suffix)
      pushed == IF parent # None
                THEN push_with_parent(b.tree, b.gen, data, parent[1], debug)
                ELSE push(b.tree, b.gen, data)
      bound == IF b.last_id # None THEN b.last_id[1] ELSE pushed.id
  IN IF pushed.panicked
     THEN [b EXCEPT !.tree = pushed.tree, !.gen = pushed.gen, !.panicked = TRUE]
     ELSE [tree |-> pushed.tree,
           marker_to_node_id |->
             IF b.marker_awaiting_node_id # None
             THEN MapInsert(b.marker_to_node_id,
                            b.marker_awaiting_node_id[1], bound)
             ELSE b.marker_to_node_id,
           last_id |-> Some(pushed.id),
           marker_awaiting_node_id |-> None,
           gen |-> pushed.gen,
           panicked |-> FALSE]

\* The Command arm of traverse.
TraverseCommand(b, parent, element, debug) ==
  LET data == Command(element.name, element.suffix)
      pushed == IF parent # None
                THEN push_with_parent(b.tree, b.gen, data, parent[1], debug)
                ELSE push(b.tree, b.gen, data)
  IN IF pushed.panicked
     THEN [b EXCEPT !.tree = pushed.tree, !.gen = pushed.gen, !.panicked = TRUE]
     ELSE [tree |-> pushed.tree,
           marker_to_node_id |->
             IF b.marker_awaiting_node_id # None
             THEN MapInsert(b.marker_to_node_id,
                            b.marker_awaiting_node_id[1], pushed.id)
             ELSE b.marker_to_node_id,
           last_id |-> Some(pushed.id),
           marker_awaiting_node_id |-> None,
           gen |-> pushed.gen,
           panicked |-> FALSE]

\* The Marker arm of traverse: the debug_assert fires in a debug build only.
\* A Marker arm that keeps the marker already pending, if there is one.
TraverseMarkerKeepsPending(b, element, debug) ==
  IF debug /\ b.marker_awaiting_node_id # None
  THEN [b EXCEPT !.panicked = TRUE]
  ELSE IF b.marker_awaiting_node_id # None THEN b
  ELSE [b EXCEPT !.marker_awaiting_node_id = Some(element.name)]

TraverseMarker(b, element, debug) ==
  IF debug /\ b.marker_awaiting_node_id # None
  THEN [b EXCEPT !.panicked = TRUE]
  ELSE [b EXCEPT !.marker_awaiting_node_id = Some(element.name)]

\* A Block arm that hands the line before the block to the block as parent.
BlockParentIsLastLine(b, parent) == b.last_id

\* The parent that the Block arm of traverse hands to the elements of the block.
BlockParent(b, parent) == parent

RECURSIVE Traverse(_, _, _, _)
RECURSIVE TraverseEach(_, _, _, _)
Traverse(b, parent, element, debug) ==
  IF b.panicked THEN b
  ELSE CASE element.kind = "Command" -> TraverseCommand(b, parent, element, debug)
         [] element.kind = "Marker" -> TraverseMarker(b, element, debug)
         [] element.kind = "Block" ->
              IF debug /\ b.last_id = None
              THEN [b EXCEPT !.panicked = TRUE]
              ELSE TraverseEach(b, BlockParent(b, parent), element.inner, debug)
         [] OTHER -> b

\* The for loops over the elements of a script or of a block.
TraverseEach(b, parent, elements, debug) ==
  IF elements = <<>> THEN b
  ELSE TraverseEach(Traverse(b, parent, Head(elements), debug),
                    parent, Tail(elements), debug)

\* StateTree::new up to the construction of the state: the build, which
\* panics when an assertion fires or when the tree has no first node.
Build(script, gen, debug) ==
  LET b == TraverseEach(NewBuild(gen), None, script, debug)
  IN IF b.panicked \/ first(b.tree) = None THEN [b EXCEPT !.panicked = TRUE] ELSE b

\* ------------------------------------------------------------------ engine
AwaitingChoice(nodes) == [tag |-> "AwaitingChoice", nodes |-> nodes]
AwaitingTick(node) == [tag |-> "AwaitingTick", nodes |-> <<node>>]
Done == [tag |-> "Done", nodes |-> <<>>]

StateTree(tree, marker_to_node_id, state, tick_count) ==
  [tree |-> tree, marker_to_node_id |-> marker_to_node_id,
   state |-> state, tick_count |-> tick_count]

\* The value a call returns: res is "Ok", the error it fails with, or "Panic".
Return(res, number, commands) ==
  [res |-> res, number |-> number, commands |-> commands]

\* A tick that starts over at the first node when a command has no children.
TickNextStateStartsOver(tree, current_id, command, child_ids) ==
  IF child_ids = <<>>
  THEN IF is_choice(command)
       THEN AwaitingChoice(child_ids)
       ELSE AwaitingTick(first(tree)[1])
  ELSE LET first_child == get_by_id(tree, child_ids[1])
       IN IF is_choice(first_child[1])
          THEN AwaitingChoice(child_ids)
          ELSE AwaitingTick(child_ids[1])

\* A tick that moves on from a childless CHOICE as from any other command.
TickNextStateLeafMovesOn(tree, current_id, command, child_ids) ==
  IF child_ids = <<>>
  THEN LET following == next(tree, current_id)
       IN IF following # None THEN AwaitingTick(following[1]) ELSE Done
  ELSE LET first_child == get_by_id(tree, child_ids[1])
       IN IF is_choice(first_child[1])
          THEN AwaitingChoice(child_ids)
          ELSE AwaitingTick(child_ids[1])

\* A tick that offers only the CHOICE commands among the children.
TickNextStateChoicesOnly(tree, current_id, command, child_ids) ==
  IF child_ids = <<>>
  THEN IF is_choice(command)
       THEN AwaitingChoice(child_ids)
       ELSE LET following == next(tree, current_id)
            IN IF following # None THEN AwaitingTick(following[1]) ELSE Done
  ELSE LET first_child == get_by_id(tree, child_ids[1])
           IsChoiceNode(id) == is_choice(get_by_id(tree, id)[1])
       IN IF is_choice(first_child[1])
          THEN AwaitingChoice(SelectSeq(child_ids, IsChoiceNode))
          ELSE AwaitingTick(child_ids[1])

\* The state tick leaves the engine in after emitting current_id.
TickNextState(tree, current_id, command, child_ids) ==
  IF child_ids = <<>>
  THEN IF is_choice(command)
       THEN AwaitingChoice(child_ids)
       ELSE LET following == next(tree, current_id)
            IN IF following # None THEN AwaitingTick(following[1]) ELSE Done
  ELSE LET first_child == get_by_id(tree, child_ids[1])
       IN IF is_choice(first_child[1])
          THEN AwaitingChoice(child_ids)
          ELSE AwaitingTick(child_ids[1])

\* A tick that returns the command of the tree's first node.
TickCommandsOfFirst(tree, current_id) == <<tree.branches[1].data>>

\* The commands a tick made in AwaitingTick(current_id) returns.
TickCommands(tree, current_id) == <<get_by_id(tree, current_id)[1]>>

\* A tick that returns twice the number of commands emitted before it.
tick_numbers_doubled(self) ==
  CASE self.state.tag = "AwaitingChoice" ->
         [self |-> self, ret |-> Return("IllegalState", 0, <<>>)]
    [] self.state.tag = "AwaitingTick" ->
         LET current_id == self.state.nodes[1]
             child_ids == children_of(self.tree, current_id)
             command == get_by_id(self.tree, current_id)
         IN [self |-> [self EXCEPT !.tick_count = @ + 1,
                                   !.state = TickNextState(self.tree, current_id,
                                                           command[1], child_ids)],
             ret |-> Return("Ok", 2 * self.tick_count,
                            TickCommands(self.tree, current_id))]
    [] OTHER ->
         [self |-> self, ret |-> Return("Ok", self.tick_count, <<>>)]

\* A tick that counts a step, and says so, even when the script has ended.
tick_done_advances(self) ==
  CASE self.state.tag = "AwaitingChoice" ->
         [self |-> self, ret |-> Return("IllegalState", 0, <<>>)]
    [] self.state.tag = "AwaitingTick" ->
         LET current_id == self.state.nodes[1]
             child_ids == children_of(self.tree, current_id)
             command == get_by_id(self.tree, current_id)
         IN [self |-> [self EXCEPT !.tick_count = @ + 1,
                                   !.state = TickNextState(self.tree, current_id,
                                                           command[1], child_ids)],
             ret |-> Return("Ok", self.tick_count,
                            TickCommands(self.tree, current_id))]
    [] OTHER ->
         [self |-> [self EXCEPT !.tick_count = @ + 1],
          ret |-> Return("Ok", self.tick_count + 1, <<>>)]

\* A tick that advances the step counter before it looks at the state.
tick_counts_every_call(self) ==
  LET counted == [self EXCEPT !.tick_count = @ + 1]
  IN CASE self.state.tag = "AwaitingChoice" ->
            [self |-> counted, ret |-> Return("IllegalState", 0, <<>>)]
       [] self.state.tag = "AwaitingTick" ->
            LET current_id == self.state.nodes[1]
                child_ids == children_of(self.tree, current_id)
                command == get_by_id(self.tree, current_id)
            IN [self |-> [counted EXCEPT !.state =
                            TickNextState(self.tree, current_id,
                                          command[1], child_ids)],
                ret |-> Return("Ok", self.tick_count,
                               TickCommands(self.tree, current_id))]
       [] OTHER ->
            [self |-> counted, ret |-> Return("Ok", self.tick_count, <<>>)]

\* StateTree::tick: the engine after the call and what the call returns.
tick(self) ==
  CASE self.state.tag = "AwaitingChoice" ->
         [self |-> self, ret |-> Return("IllegalState", 0, <<>>)]
    [] self.state.tag = "AwaitingTick" ->
         LET current_id == self.state.nodes[1]
             number == self.tick_count
             counted == [self EXCEPT !.tick_count = @ + 1]
             child_ids == children_of(self.tree, current_id)
             command == get_by_id(self.tree, current_id)
         IN IF command = None
            THEN [self |-> counted, ret |-> Return("NoBranch", 0, <<>>)]
            ELSE IF child_ids # <<>> /\ get_by_id(self.tree, child_ids[1]) = None
            THEN [self |-> counted, ret |-> Return("NoBranch", 0, <<>>)]
            ELSE [self |-> [counted EXCEPT !.state =
                              TickNextState(self.tree, current_id,
                                            command[1], child_ids)],
                  ret |-> Return("Ok", number,
                                 TickCommands(self.tree, current_id))]
    [] OTHER ->
         [self |-> self, ret |-> Return("Ok", self.tick_count, <<>>)]

\* A choose that counts the options from one.
choose_from_one(self, choice) ==
  CASE self.state.tag = "AwaitingTick" ->
         [self |-> self, ret |-> Return("IllegalState", 0, <<>>)]
    [] self.state.tag = "AwaitingChoice" ->
         IF choice = 0 \/ choice > Len(self.state.nodes)
         THEN [self |-> self, ret |-> Return("Panic", 0, <<>>)]
         ELSE [self |-> [self EXCEPT !.state =
                           AwaitingTick(self.state.nodes[choice])],
               ret |-> Return("Ok", 0, <<>>)]
    [] OTHER ->
         [self |-> self, ret |-> Return("IllegalState", 0, <<>>)]

\* StateTree::choose: indexing children[choice] out of range panics.
choose(self, choice) ==
  CASE self.state.tag = "AwaitingTick" ->
         [self |-> self, ret |-> Return("IllegalState", 0, <<>>)]
    [] self.state.tag = "AwaitingChoice" ->
         IF choice >= Len(self.state.nodes)
         THEN [self |-> self, ret |-> Return("Panic", 0, <<>>)]
         ELSE [self |-> [self EXCEPT !.state =
                           AwaitingTick(self.state.nodes[choice + 1])],
               ret |-> Return("Ok", 0, <<>>)]
    [] OTHER ->
         [self |-> self, ret |-> Return("IllegalState", 0, <<>>)]

\* A goto that takes the marker out of the table as it jumps.
goto_consumes_marker(self, marker) ==
  IF marker \in DOMAIN self.marker_to_node_id
  THEN [self |-> [self EXCEPT
                    !.state = AwaitingTick(self.marker_to_node_id[marker]),
                    !.marker_to_node_id =
                      [k \in DOMAIN self.marker_to_node_id \ {marker} |->
                         self.marker_to_node_id[k]]],
        ret |-> Return("Ok", 0, <<>>)]
  ELSE [self |-> self, ret |-> Return("UnknownMarker", 0, <<>>)]

\* A goto that is refused while a choice is pending.
goto_unless_choosing(self, marker) ==
  IF self.state.tag = "AwaitingChoice"
  THEN [self |-> self, ret |-> Return("IllegalState", 0, <<>>)]
  ELSE IF marker \in DOMAIN self.marker_to_node_id
  THEN [self |-> [self EXCEPT !.state =
                    AwaitingTick(self.marker_to_node_id[marker])],
        ret |-> Return("Ok", 0, <<>>)]
  ELSE [self |-> self, ret |-> Return("UnknownMarker", 0, <<>>)]

\* StateTree::goto.
goto(self, marker) ==
  IF marker \in DOMAIN self.marker_to_node_id
  THEN [self |-> [self EXCEPT !.state =
                    AwaitingTick(self.marker_to_node_id[marker])],
        ret |-> Return("Ok", 0, <<>>)]
  ELSE [self |-> self, ret |-> Return("UnknownMarker", 0, <<>>)]

\* ------------------------------------------------------------------- state
VARIABLES
  script,             \* the Script handed to StateTree::new
  pc,                 \* "arena" (a Tree under construction), "ready", "aborted"
  gen,                \* ID_GENERATOR
  tree,               \* StateTree.tree
  marker_to_node_id,  \* StateTree.marker_to_node_id
  state,              \* StateTree.state
  tick_count,         \* StateTree.tick_count
  last,               \* the last call made and what it returned
  hist,               \* the calls made so far, while they follow a scenario
  steps,              \* the step numbers returned by ticks that emitted
  added,              \* the push and push_with_parent calls made on the arena
  text,               \* the script text handed to Script::parse
  result,             \* what the last parse, to_string or check_syntax returned
  threads,            \* the trees owned by threads that push concurrently
  state_machine,      \* the line-based StateMachine of the run loop
  other_trees         \* the sizes of the other trees built in the process

vars ==
  <<script, pc, gen, tree, marker_to_node_id, state, tick_count, last, hist,
    steps, added, text, result, threads, state_machine, other_trees>>

\* No parse, to_string or check_syntax has been called.
NoResult == [op |-> "none", res |-> "Ok", out |-> <<>>, options |-> <<>>]

\* No thread pushes concurrently; no StateMachine has been built.
NoThreads == <<>>

NoMachine == [current_line |-> 0, marker_map |-> EmptyMap, script |-> <<>>]

Self == StateTree(tree, marker_to_node_id, state, tick_count)

\* What a call keeps of the call made immediately before it: a goto that
\* succeeded (with its marker), a tick that emitted a command, or "other".
NoCall == [op |-> "other", marker |-> ""]

Previous(call) ==
  IF call.op = "goto" /\ call.ret.res = "Ok"
  THEN [op |-> "goto", marker |-> call.marker]
  ELSE IF call.op = "tick" /\ call.ret.res = "Ok" /\ call.ret.commands # <<>>
  THEN [op |-> "tick", marker |-> ""]
  ELSE NoCall

\* A call of the caller: the operation and its argument, the engine state and
\* step counter it was made in, the call that came immediately before it, and
\* what this call returned.
Call(op, idx, marker, ret) ==
  [op |-> op, idx |-> idx, marker |-> marker,
   before |-> state, count |-> tick_count,
   follows |-> Previous(last),
   ret |-> ret]

Constructed(ret) ==
  [op |-> "new", idx |-> 0, marker |-> "", before |-> Done, count |-> 0,
   follows |-> NoCall, ret |-> ret]

TickCall == [op |-> "tick", idx |-> 0]
ChooseCall(i) == [op |-> "choose", idx |-> i]

\* The call sequences of the engine's tests and of the scenario.
Scenarios ==
  {<<TickCall, TickCall, TickCall, TickCall>>,
   <<TickCall, TickCall, ChooseCall(1), TickCall, TickCall>>,
   <<TickCall, TickCall, ChooseCall(0), TickCall, TickCall, TickCall>>}

Untracked == <<[op |-> "other", idx |-> 0]>>

Track(h, call) ==
  LET longer == Append(h, call)
  IN IF h # Untracked
        /\ \E s \in Scenarios :
             Len(longer) <= Len(s) /\ SubSeq(s, 1, Len(longer)) = longer
     THEN longer
     ELSE Untracked

\* The engine StateTree::new returns for a script, or the aborted build.
Init ==
  \E txt \in Texts(MaxLines) \cup ScenarioTexts, base \in ScriptBaseIds,
     debug \in BOOLEAN :
    LET b == Build(Parse(txt), base, debug)
    IN /\ script = Parse(txt)
       /\ text = txt
       /\ result = NoResult
       /\ other_trees = <<>>
       /\ threads = NoThreads
       /\ state_machine = NoMachine
       /\ pc = IF b.panicked THEN "aborted" ELSE "ready"
       /\ gen = b.gen
       /\ tree = b.tree
       /\ marker_to_node_id = b.marker_to_node_id
       /\ state = IF b.panicked THEN Done ELSE AwaitingTick(first(b.tree)[1])
       /\ tick_count = 0
       /\ last = Constructed(Return(IF b.panicked THEN "Panic" ELSE "Ok", 0, <<>>))
       /\ hist = <<>>
       /\ steps = <<>>
       /\ added = <<>>

Tick ==
  /\ pc = "ready"
  /\ state.tag = "AwaitingTick" => tick_count < MaxTicks
  /\ LET r == tick(Self)
     IN /\ tree' = r.self.tree
        /\ marker_to_node_id' = r.self.marker_to_node_id
        /\ state' = r.self.state
        /\ tick_count' = r.self.tick_count
        /\ last' = Call("tick", 0, "", r.ret)
        /\ steps' = IF state.tag = "AwaitingTick" /\ r.ret.res = "Ok"
                     THEN Append(steps, r.ret.number)
                     ELSE steps
  /\ hist' = Track(hist, TickCall)
  /\ UNCHANGED <<script, pc, gen, added, text, result,
         threads, state_machine, other_trees>>

Choose(choice) ==
  /\ pc = "ready"
  /\ LET r == choose(Self, choice)
     IN /\ tree' = r.self.tree
        /\ marker_to_node_id' = r.self.marker_to_node_id
        /\ state' = r.self.state
        /\ tick_count' = r.self.tick_count
        /\ last' = Call("choose", choice, "", r.ret)
        /\ pc' = IF r.ret.res = "Panic" THEN "aborted" ELSE pc
  /\ hist' = Track(hist, ChooseCall(choice))
  /\ UNCHANGED <<script, gen, steps, added, text, result,
         threads, state_machine, other_trees>>

Goto(marker) ==
  /\ pc = "ready"
  /\ LET r == goto(Self, marker)
     IN /\ tree' = r.self.tree
        /\ marker_to_node_id' = r.self.marker_to_node_id
        /\ state' = r.self.state
        /\ tick_count' = r.self.tick_count
        /\ last' = Call("goto", 0, marker, r.ret)
  /\ hist' = Untracked
  /\ UNCHANGED <<script, pc, gen, steps, added, text, result,
         threads, state_machine, other_trees>>

Next ==
  \/ Tick
  \/ \E choice \in 0..MaxChoice : Choose(choice)
  \/ \E marker \in MarkerNames \cup {UnknownMarker} : Goto(marker)

Spec == Init /\ [][Next]_vars

\* ------------------------------------------------- the engine on any tree
\* The engine over a tree built by any sequence of push and push_with_parent
\* calls, positioned at the tree's first node as StateTree::new does.
InitArena ==
  /\ script = <<>>
  /\ text = <<>>
  /\ result = NoResult
  /\ other_trees = <<>>
  /\ threads = NoThreads
  /\ state_machine = NoMachine
  /\ pc = "arena"
  /\ gen \in BaseIds
  /\ tree = NewTree
  /\ marker_to_node_id = EmptyMap
  /\ state = Done
  /\ tick_count = 0
  /\ last = Constructed(Return("Ok", 0, <<>>))
  /\ hist = <<>>
  /\ steps = <<>>
  /\ added = <<>>

Grown(pushed, parent) ==
  /\ tree' = pushed.tree
  /\ gen' = pushed.gen
  /\ pc' = IF pushed.panicked THEN "aborted" ELSE pc
  /\ added' = Append(added, [id |-> pushed.id, parent |-> parent])
  /\ UNCHANGED
       <<script, marker_to_node_id, state, tick_count, last, hist, steps, text,
         result,
         threads, state_machine, other_trees>>

ArenaPush(name) ==
  /\ pc = "arena"
  /\ Len(tree.branches) < MaxNodes
  /\ Grown(push(tree, gen, Command(name, Len(tree.branches) + 1)), None)

ArenaPushWithParent(name, parent) ==
  /\ pc = "arena"
  /\ Len(tree.branches) < MaxNodes
  /\ \E debug \in BOOLEAN :
       Grown(push_with_parent(tree, gen, Command(name, Len(tree.branches) + 1),
                              parent, debug), Some(parent))

ArenaStart ==
  /\ pc = "arena"
  /\ first(tree) # None
  /\ pc' = "ready"
  /\ state' = AwaitingTick(first(tree)[1])
  /\ UNCHANGED
       <<script, gen, tree, marker_to_node_id, tick_count, last, hist, steps,
         added, text, result,
         threads, state_machine, other_trees>>

NodeIds(t) == {t.branches[i].id : i \in 1..Len(t.branches)}

NextArena ==
  \/ \E name \in CommandNames : ArenaPush(name)
  \/ \E name \in CommandNames, parent \in NodeIds(tree) :
       ArenaPushWithParent(name, parent)
  \/ ArenaStart
  \/ Next

SpecArena == InitArena /\ [][NextArena]_vars

\* ---------------------------------------------------------- document order
\* The lines of a script in document order, each with its nesting depth: the
\* walk Block::fmt_with_indent makes when it writes the script out.
RECURSIVE FlattenAt(_, _)
FlattenAt(elements, d) ==
  IF elements = <<>> THEN <<>>
  ELSE LET e == Head(elements)
       IN (IF e.kind = "Block" THEN FlattenAt(e.inner, d + 1)
           ELSE <<[kind |-> e.kind, name |-> e.name, suffix |-> e.suffix,
                   depth |-> d]>>)
          \o FlattenAt(Tail(elements), d)

DocumentLines == FlattenAt(script, 0)

CommandOf(line) == Command(line.name, line.suffix)

\* The positions of the command lines after position p, in document order.
CommandsAfter(lines, p) ==
  {q \in (p + 1)..Len(lines) : lines[q].kind = "Command"}

Min(S) == CHOOSE x \in S : \A y \in S : x <= y

\* The node that holds the command written on text line n.
NodeOfLine(n) ==
  LET i == CHOOSE j \in 1..Len(tree.branches) : tree.branches[j].data.suffix = n
  IN tree.branches[i].id

Ticks(n) == [i \in 1..n |-> TickCall]

\* ------------------------------------------------------------------ claims
\* START, k >= 1 top-level commands that are not CHOICE, END.
IsFlatScript ==
  LET n == Len(script)
  IN /\ n >= 3
     /\ script[1] = MarkerLine("START")
     /\ script[n] = MarkerLine("END")
     /\ \A i \in 2..(n - 1) :
          script[i].kind = "Command" /\ script[i].name # "CHOICE"

\* C1 (as claimed): on a script made of START, k >= 1 top-level commands that
\* are not CHOICE and END, the i-th of the first k ticks succeeds and returns
\* exactly the i-th command, and tick k+1 succeeds with no command.
C1_FlatScriptTicksInOrder ==
  (IsFlatScript /\ hist # <<>> /\ hist = Ticks(Len(hist))) =>
    LET k == Len(script) - 2
        i == Len(hist)
    IN /\ i <= k + 1 => last.ret.res = "Ok"
       /\ i <= k => last.ret.commands = <<CommandOf(script[i + 1])>>
       /\ i = k + 1 => last.ret.commands = <<>>

\* C2 (as claimed): the scenario START, A SAY "hi", CHOICE "yes" with a block
\* holding B SAY "ok", CHOICE "no" with a block holding B SAY "not ok", END
\* (commands on lines 2..6). Tick 1 emits the SAY of line 2 and leaves
\* AwaitingTick at the first CHOICE; tick 2 emits that CHOICE and leaves
\* AwaitingChoice with two entries; choose(1) succeeds; the next tick emits
\* the SAY of line 6; the tick after it returns nothing.
C2_ChoiceScenario ==
  script = Parse(ChoiceScenarioText) =>
    /\ hist = Ticks(1) =>
         /\ last.ret.res = "Ok"
         /\ last.ret.commands = <<Command("SAY", 2)>>
         /\ state = AwaitingTick(NodeOfLine(3))
    /\ hist = Ticks(2) =>
         /\ last.ret.res = "Ok"
         /\ last.ret.commands = <<Command("CHOICE", 3)>>
         /\ state.tag = "AwaitingChoice"
         /\ Len(state.nodes) = 2
    /\ hist = Ticks(2) \o <<ChooseCall(1)>> => last.ret.res = "Ok"
    /\ hist = Ticks(2) \o <<ChooseCall(1), TickCall>> =>
         /\ last.ret.res = "Ok"
         /\ last.ret.commands = <<Command("SAY", 6)>>
    /\ hist = Ticks(2) \o <<ChooseCall(1), TickCall, TickCall>> =>
         /\ last.ret.res = "Ok"
         /\ last.ret.commands = <<>>

\* C3: a tick made in AwaitingTick(node) succeeds and returns exactly one
\* command, the payload the tree stores at node.
C3_TickEmitsTheNode ==
  (last.op = "tick" /\ last.before.tag = "AwaitingTick") =>
    /\ last.ret.res = "Ok"
    /\ Len(last.ret.commands) = 1
    /\ \E i \in 1..Len(tree.branches) :
         /\ tree.branches[i].id = last.before.nodes[1]
         /\ tree.branches[i].data = last.ret.commands[1]
    /\ \A i, j \in 1..Len(tree.branches) :
         tree.branches[i].id = tree.branches[j].id => i = j

\* A tick has emitted a node other than the tree's first one.
C3_Witness ==
  /\ last.op = "tick"
  /\ last.before.tag = "AwaitingTick"
  /\ last.before.nodes[1] # tree.branches[1].id
  /\ Len(last.ret.commands) = 1

\* The nodes appended under node, in the order they were appended.
InsertedChildren(node) ==
  LET Under(r) == r[1] = node
      rels == SelectSeq(tree.parent_child_relationships, Under)
  IN [i \in 1..Len(rels) |-> rels[i][2]]

\* The payload of the node with identity id.
Payload(id) ==
  LET i == CHOOSE j \in 1..Len(tree.branches) : tree.branches[j].id = id
  IN tree.branches[i].data

\* C4: a tick made in AwaitingTick(node), node having at least one child,
\* leaves AwaitingChoice(all children of node, in insertion order) when the
\* first child is a CHOICE, and AwaitingTick(first child) otherwise.
C4_TickWithChildren ==
  (last.op = "tick" /\ last.before.tag = "AwaitingTick"
     /\ InsertedChildren(last.before.nodes[1]) # <<>>) =>
    LET cs == InsertedChildren(last.before.nodes[1])
    IN /\ last.ret.res = "Ok"
       /\ IF Payload(cs[1]).name = "CHOICE"
          THEN state = AwaitingChoice(cs)
          ELSE state = AwaitingTick(cs[1])

\* A tick has left a choice among two or more children, one of them not a
\* CHOICE command.
C4_Witness ==
  /\ last.op = "tick"
  /\ last.before.tag = "AwaitingTick"
  /\ state.tag = "AwaitingChoice"
  /\ Len(state.nodes) >= 2
  /\ state.nodes = InsertedChildren(last.before.nodes[1])
  /\ \E i \in 1..Len(state.nodes) : Payload(state.nodes[i]).name # "CHOICE"

\* The call was made right after a tick emitted node, whose children begin
\* with a CHOICE command.
RightAfterChoicePoint(node) ==
  /\ last.follows.op = "tick"
  /\ last.before.tag = "AwaitingChoice"
  /\ last.before.nodes # <<>>
  /\ last.before.nodes = InsertedChildren(node)
  /\ Payload(last.before.nodes[1]).name = "CHOICE"

\* C5: choice exhaustiveness. Right after a tick has emitted a node whose
\* children begin with a CHOICE, another tick fails with the illegal-state
\* error, and choose(i) with i below the number of children succeeds and
\* leaves AwaitingTick(child i).
C5_ChoiceExhaustive ==
  \A n \in 1..Len(tree.branches) :
    RightAfterChoicePoint(tree.branches[n].id) =>
      LET cs == InsertedChildren(tree.branches[n].id)
      IN /\ last.op = "tick" =>
              last.ret.res = "IllegalState" /\ state = last.before
         /\ (last.op = "choose" /\ last.idx < Len(cs)) =>
              last.ret.res = "Ok" /\ state = AwaitingTick(cs[last.idx + 1])

\* choose(1) has been accepted right after the tick that emitted the parent.
C5_Witness ==
  /\ last.op = "choose"
  /\ last.idx = 1
  /\ last.ret.res = "Ok"
  /\ \E n \in 1..Len(tree.branches) : RightAfterChoicePoint(tree.branches[n].id)
  /\ state = AwaitingTick(last.before.nodes[2])

\* The position in document order of the line a command was written on.
PositionOf(lines, command) ==
  CHOOSE q \in 1..Len(lines) :
    lines[q].kind = "Command" /\ CommandOf(lines[q]) = command

\* The last position of the block that the line at position p owns (p itself
\* when the next line is not indented deeper).
BlockEnd(lines, p) == p + DeeperRun(lines, p + 1, lines[p].depth)

\* The commands written in positions from..to, in document order.
CommandsIn(lines, from, to) ==
  LET IsCommand(line) == line.kind = "Command"
      found == SelectSeq(SubSeq(lines, from, to), IsCommand)
  IN [i \in 1..Len(found) |-> CommandOf(found[i])]

\* What n successive ticks return, starting from the engine self.
RECURSIVE Emitted(_, _)
Emitted(self, n) ==
  IF n = 0 THEN <<>>
  ELSE LET r == tick(self) IN <<r.ret>> \o Emitted(r.self, n - 1)

\* C6 (as claimed): once a tick has emitted a CHOICE command that owns an
\* indented block, an option can be chosen; after choose(i) the next tick
\* emits the first command inside the chosen option's block, and when the
\* block (holding no CHOICE) is exhausted the following tick emits the command
\* that follows it in document order.
C6_ChosenBlockRuns ==
  LET lines == DocumentLines
  IN (/\ last.op = "tick" /\ last.ret.res = "Ok" /\ last.ret.commands # <<>>
      /\ is_choice(last.ret.commands[1])
      /\ CommandsIn(lines, PositionOf(lines, last.ret.commands[1]) + 1,
                    BlockEnd(lines, PositionOf(lines, last.ret.commands[1]))) # <<>>)
     =>
     /\ state.tag = "AwaitingChoice"
     /\ state.nodes # <<>>
     /\ \A i \in 0..(Len(state.nodes) - 1) :
          LET p == PositionOf(lines, Payload(state.nodes[i + 1]))
              block == CommandsIn(lines, p + 1, BlockEnd(lines, p))
              after == CommandsIn(lines, BlockEnd(lines, p) + 1, Len(lines))
              chosen == choose(Self, i)
              emitted == Emitted(chosen.self, Len(block) + 1)
          IN /\ chosen.ret.res = "Ok"
             /\ block # <<>> => emitted[1].commands = <<block[1]>>
             /\ (/\ \A j \in 1..Len(block) : ~is_choice(block[j])
                 /\ after # <<>>
                 /\ ~is_choice(after[1]))
                => emitted[Len(block) + 1].commands = <<after[1]>>

\* C7 (as claimed): choose(index) with index >= the number of options returns
\* an error, does not abort, and leaves the state AwaitingChoice(nodes).
C7_ChooseOutOfRangeIsAnError ==
  (/\ last.op = "choose"
   /\ last.before.tag = "AwaitingChoice"
   /\ last.idx >= Len(last.before.nodes))
  => /\ last.ret.res \notin {"Ok", "Panic"}
     /\ pc = "ready"
     /\ state = last.before

\* C8: tick called in AwaitingChoice, and choose called in AwaitingTick or in
\* Done, return the illegal-state error and leave the execution state and
\* the step counter as they were.
C8_IllegalCallsChangeNothing ==
  (\/ last.op = "tick" /\ last.before.tag = "AwaitingChoice"
   \/ last.op = "choose" /\ last.before.tag \in {"AwaitingTick", "Done"})
  => /\ last.ret.res = "IllegalState"
     /\ pc = "ready"
     /\ state = last.before
     /\ tick_count = last.count

\* A tick has been refused while a choice was pending, after a command had
\* been emitted.
C8_Witness ==
  /\ last.op = "tick"
  /\ last.before.tag = "AwaitingChoice"
  /\ last.ret.res = "IllegalState"
  /\ tick_count > 0

\* C9: goto(name) with a name of the marker table succeeds from every state
\* and sets AwaitingTick(node bound to name); with any other name it fails
\* with the unknown-marker error and leaves the state; the step counter is
\* unchanged either way.
C9_Goto ==
  last.op = "goto" =>
    /\ tick_count = last.count
    /\ pc = "ready"
    /\ IF last.marker \in DOMAIN marker_to_node_id
       THEN /\ last.ret.res = "Ok"
            /\ state = AwaitingTick(marker_to_node_id[last.marker])
       ELSE /\ last.ret.res = "UnknownMarker"
            /\ state = last.before

\* A goto has taken the engine out of a pending choice.
C9_Witness ==
  /\ last.op = "goto"
  /\ last.before.tag = "AwaitingChoice"
  /\ last.ret.res = "Ok"
  /\ state.tag = "AwaitingTick"

\* The positions of the lines that declare marker name.
MarkerPositions(lines, name) ==
  {p \in 1..Len(lines) : lines[p].kind = "Marker" /\ lines[p].name = name}

\* C10: goto correctness. The tick that follows a successful goto(LABEL)
\* emits exactly the command that comes first after the %LABEL% line in
\* document order, wherever the engine was before the goto.
C10_GotoThenTick ==
  (last.op = "tick" /\ last.follows.op = "goto") =>
    LET lines == DocumentLines
    IN \A p \in MarkerPositions(lines, last.follows.marker) :
         /\ CommandsAfter(lines, p) # {}
         /\ last.ret.res = "Ok"
         /\ last.ret.commands =
              <<CommandOf(lines[Min(CommandsAfter(lines, p))])>>

\* The tick after a goto has emitted a command written inside a block, other
\* than the first command of the script.
C10_Witness ==
  /\ last.op = "tick"
  /\ last.follows.op = "goto"
  /\ Len(last.ret.commands) = 1
  /\ LET lines == DocumentLines
         q == PositionOf(lines, last.ret.commands[1])
     IN /\ lines[q].depth > 0
        /\ \E r \in 1..(q - 1) : lines[r].kind = "Command"

\* The engine after n successive ticks, starting from the engine self.
RECURSIVE TickTimes(_, _)
TickTimes(self, n) ==
  IF n = 0 THEN self ELSE TickTimes(tick(self).self, n - 1)

\* C11: termination is idempotent. A tick that has emitted a non-CHOICE node
\* with no children and no command after it in document order leaves Done;
\* in Done every further tick, however many, succeeds with no command, leaves
\* Done and leaves the step counter.
C11_TerminationIsIdempotent ==
  LET lines == DocumentLines
  IN /\ (/\ last.op = "tick" /\ last.before.tag = "AwaitingTick"
         /\ last.ret.res = "Ok"
         /\ ~is_choice(last.ret.commands[1])
         /\ InsertedChildren(last.before.nodes[1]) = <<>>
         /\ CommandsAfter(lines, PositionOf(lines, last.ret.commands[1])) = {})
        => state = Done
     /\ (last.op = "tick" /\ last.before = Done) =>
          /\ last.ret = Return("Ok", last.count, <<>>)
          /\ state = Done
          /\ tick_count = last.count
     /\ state = Done =>
          \A n \in 0..MaxTicks :
            LET r == tick(TickTimes(Self, n))
            IN r.ret = Return("Ok", tick_count, <<>>) /\ r.self = Self

\* A tick has emitted the last command of a document that holds several
\* commands, and has left Done.
C11_Witness ==
  /\ last.op = "tick"
  /\ last.before.tag = "AwaitingTick"
  /\ Len(last.ret.commands) = 1
  /\ ~is_choice(last.ret.commands[1])
  /\ state = Done
  /\ LET lines == DocumentLines
         p == PositionOf(lines, last.ret.commands[1])
     IN /\ CommandsAfter(lines, p) = {}
        /\ p # Min(CommandsAfter(lines, 0))

\* The engine StateTree::new returns for a text that builds without panic.
NewEngine(txt, base, debug) ==
  LET b == Build(Parse(txt), base, debug)
  IN StateTree(b.tree, b.marker_to_node_id, AwaitingTick(first(b.tree)[1]), 0)

\* The script is N >= 1 commands, none a CHOICE, nested one per level.
IsNestedScript ==
  LET lines == DocumentLines
  IN /\ lines # <<>>
     /\ \A i \in 1..Len(lines) :
          /\ lines[i].kind = "Command"
          /\ lines[i].name # "CHOICE"
          /\ lines[i].depth = i - 1

\* The same commands written as siblings at the top level.
SiblingText ==
  LET lines == DocumentLines
  IN [i \in 1..Len(lines) |-> TextLine("Command", lines[i].name, 0)]

\* C12: depth-flattening equivalence. On a script of N non-CHOICE commands
\* nested one per indentation level, every tick of a playthrough made of
\* ticks alone returns what the same tick returns on the script that has the
\* same N commands as top-level siblings.
C12_DepthFlattening ==
  (pc = "ready" /\ IsNestedScript /\ hist # <<>> /\ hist = Ticks(Len(hist))) =>
    LET flat == NewEngine(SiblingText, IdModulus - 2, FALSE)
        twin == Emitted(flat, Len(hist))[Len(hist)]
    IN /\ last.ret.res = twin.res
       /\ last.ret.commands = twin.commands

\* A playthrough of a script nested three levels deep has returned its first
\* empty result.
C12_Witness ==
  /\ pc = "ready"
  /\ IsNestedScript
  /\ Len(DocumentLines) = 3
  /\ hist = Ticks(2)
  /\ last.ret.commands = <<>>

\* The position of the line that opens the block holding the line at q: the
\* nearest line before q that is indented less than it.
OpenerOf(lines, q) ==
  LET before == {r \in 1..(q - 1) : lines[r].depth < lines[q].depth}
  IN CHOOSE r \in before : \A x \in before : x <= r

\* C13 (as claimed): in the tree StateTree::new builds, a command written
\* directly inside a block is a child of the node of the command line that
\* opens the block, and a command at the outermost level is a root.
C13_BlockCommandsAreChildren ==
  pc = "ready" =>
    LET lines == DocumentLines
    IN \A q \in 1..Len(lines) :
         lines[q].kind = "Command" =>
           IF lines[q].depth = 0
           THEN parent_of(tree, NodeOfLine(lines[q].suffix)) = None
           ELSE lines[OpenerOf(lines, q)].kind = "Command" =>
                  parent_of(tree, NodeOfLine(lines[q].suffix)) =
                    Some(NodeOfLine(lines[OpenerOf(lines, q)].suffix))

\* C14: the step numbers returned by the ticks made in AwaitingTick go up by
\* exactly one from each such tick to the next, whatever choose, goto or
\* refused calls were made in between; a tick made in Done returns the number
\* of commands emitted so far and leaves that number as it was.
C14_StepNumbers ==
  /\ \A i \in 2..Len(steps) : steps[i] = steps[i - 1] + 1
  /\ (last.op = "tick" /\ last.before.tag = "AwaitingTick") =>
       /\ steps # <<>>
       /\ last.ret.number = steps[Len(steps)]
  /\ (last.op = "tick" /\ last.before = Done) =>
       /\ last.ret.res = "Ok"
       /\ last.ret.number = Len(steps)
       /\ tick(Self).ret.number = Len(steps)

\* The second emitting tick of a playthrough has been made right after a
\* goto, itself made after a refused tick or a choose.
C14_Witness ==
  /\ last.op = "tick"
  /\ last.before.tag = "AwaitingTick"
  /\ last.follows.op = "goto"
  /\ Len(steps) = 2
  /\ \E i \in 1..Len(tree.branches) :
       tree.branches[i].data.name = "CHOICE"

\* C15 (as claimed): in a tree grown by push alone, next walks the nodes in
\* the order they were pushed: from first(), next(id) is the node pushed
\* right after id, and it is nothing for the last pushed node only.
C15_NextWalksRoots ==
  (added # <<>> /\ \A i \in 1..Len(added) : added[i].parent = None) =>
    /\ first(tree) = Some(added[1].id)
    /\ \A i \in 1..Len(added) :
         next(tree, added[i].id) =
           IF i < Len(added) THEN Some(added[i + 1].id) ELSE None

\* The parent a node was added under (None for a node added by push).
AddedParent(id) ==
  LET i == CHOOSE j \in 1..Len(added) : added[j].id = id
  IN added[i].parent

\* The nodes added under the same parent as id (the roots, when id is a
\* root), in the order they were added.
AddedSiblings(id) ==
  LET Same(a) == a.parent = AddedParent(id)
      sibs == SelectSeq(added, Same)
  IN [i \in 1..Len(sibs) |-> sibs[i].id]

\* The node added right after id among its siblings, if any.
FollowingSibling(id) ==
  LET sibs == AddedSiblings(id)
      i == CHOOSE j \in 1..Len(sibs) : sibs[j] = id
  IN IF i < Len(sibs) THEN Some(sibs[i + 1]) ELSE None

\* The node that follows the nearest of id and its ancestors that has a
\* following sibling; None when none of them has one.
RECURSIVE Successor(_)
Successor(id) ==
  IF FollowingSibling(id) # None THEN FollowingSibling(id)
  ELSE IF AddedParent(id) = None THEN None
  ELSE Successor(AddedParent(id)[1])

\* C16 (as claimed): for a node that has a parent, next(id) is its next
\* sibling when it has one and next(parent_of(id)) otherwise; so from the
\* last node of a block next returns the node that follows the nearest
\* enclosing line that has a following sibling, and nothing when no
\* enclosing line has one.
C16_NextClimbs ==
  \A i \in 1..Len(added) :
    added[i].parent # None =>
      LET id == added[i].id
      IN /\ next(tree, id) =
              IF next_sibling_of(tree, id) # None
              THEN next_sibling_of(tree, id)
              ELSE next(tree, added[i].parent[1])
         /\ next(tree, id) = Successor(id)

\* The node added right before id among its siblings, if any.
PrecedingSibling(id) ==
  LET sibs == AddedSiblings(id)
      i == CHOOSE j \in 1..Len(sibs) : sibs[j] = id
  IN IF i > 1 THEN Some(sibs[i - 1]) ELSE None

\* C17 (as claimed): previous_sibling_of(id) is the child added right before
\* id under the same parent, and nothing when id is its parent's first child
\* or has no parent.
C17_PreviousSibling ==
  \A i \in 1..Len(added) :
    previous_sibling_of(tree, added[i].id) =
      IF added[i].parent = None THEN None ELSE PrecedingSibling(added[i].id)

\* C18: next_sibling_of(id) is the child added right after id under the same
\* parent, and nothing when id is its parent's last child or has no parent.
C18_NextSibling ==
  \A i \in 1..Len(added) :
    next_sibling_of(tree, added[i].id) =
      IF added[i].parent = None THEN None ELSE FollowingSibling(added[i].id)

\* A node has two children: next_sibling_of has a sibling to return for the
\* first, and none for the second and for their parent.
C18_Witness ==
  \E i, j \in 1..Len(added) :
    /\ i < j
    /\ added[i].parent # None
    /\ added[i].parent = added[j].parent
    /\ next_sibling_of(tree, added[i].id) = Some(added[j].id)
    /\ next_sibling_of(tree, added[j].id) = None
    /\ next_sibling_of(tree, added[i].parent[1]) = None

\* The nodes added under parent p, in the order they were added.
AddedUnder(p) ==
  LET Under(a) == a.parent = Some(p)
      under == SelectSeq(added, Under)
  IN [i \in 1..Len(under) |-> under[i].id]

\* C19: after any push and push_with_parent calls with existing parents,
\* parent_of a node added by push_with_parent(_, p) is p, parent_of a node
\* added by push is nothing, and children_of(p) is exactly the nodes added
\* with parent p, in the order they were added.
C19_ParentsAndChildren ==
  \A i \in 1..Len(added) :
    /\ parent_of(tree, added[i].id) = added[i].parent
    /\ children_of(tree, added[i].id) = AddedUnder(added[i].id)

\* A node added by push has two children.
C19_Witness ==
  \E i, j, k \in 1..Len(added) :
    /\ j # k
    /\ children_of(tree, added[i].id) = <<added[j].id, added[k].id>>
    /\ parent_of(tree, added[k].id) = Some(added[i].id)
    /\ parent_of(tree, added[i].id) = None

\* C20 (as claimed): every push and push_with_parent call returns an
\* identity strictly greater than all identities returned before it, so the
\* nodes of a tree have distinct identities.
C20_IdsIncrease ==
  /\ \A i, j \in 1..Len(added) : i < j => added[i].id < added[j].id
  /\ \A i, j \in 1..Len(tree.branches) :
       tree.branches[i].id = tree.branches[j].id => i = j

\* ------------------------------------------- the arena with any parent
\* Identities that name no node of the tree when push_with_parent is called:
\* the one the new node is about to get, and the one after it.
AbsentParents(t, g) == {g, (g + 1) % IdModulus} \ NodeIds(t)

\* The arena when push_with_parent is also called with a parent that is not
\* in the tree.
NextAnyParent ==
  \/ NextArena
  \/ \E name \in CommandNames, parent \in AbsentParents(tree, gen) :
       ArenaPushWithParent(name, parent)

SpecAnyParent == InitArena /\ [][NextAnyParent]_vars

\* The i-th call recorded in added named a parent that no earlier call had
\* added.
ParentWasAbsent(i) ==
  /\ added[i].parent # None
  /\ \A j \in 1..(i - 1) : added[j].id # added[i].parent[1]

\* C21 (as claimed): push_with_parent with a parent that is not a node of the
\* tree aborts, and the tree gains no node and no relation naming the
\* missing parent.
C21_MissingParentAborts ==
  \A i \in 1..Len(added) :
    ParentWasAbsent(i) =>
      /\ pc = "aborted"
      /\ \A n \in 1..Len(tree.branches) : tree.branches[n].id # added[i].id
      /\ \A r \in 1..Len(tree.parent_child_relationships) :
           tree.parent_child_relationships[r][1] # added[i].parent[1]

\* C22 (as claimed): right after construction from a document that holds a
\* START marker followed by a command, the engine is in AwaitingTick(n), n
\* being the node START resolves to in the marker table, and the first tick
\* emits the command that follows START.
C22_StartsAtStart ==
  LET lines == DocumentLines
  IN (/\ last.op = "new" /\ pc = "ready"
      /\ \E p \in MarkerPositions(lines, "START") : CommandsAfter(lines, p) # {})
     => /\ "START" \in DOMAIN marker_to_node_id
        /\ state = AwaitingTick(marker_to_node_id["START"])
        /\ \A p \in MarkerPositions(lines, "START") :
             tick(Self).ret.commands =
               <<CommandOf(lines[Min(CommandsAfter(lines, p))])>>

\* The positions of the command lines of the document, in document order.
CommandPositions(lines) ==
  LET IsCommand(q) == lines[q].kind = "Command"
  IN SelectSeq([q \in 1..Len(lines) |-> q], IsCommand)

\* C23: the builder allocates one node per command line, in document order,
\* and none for a marker or a comment; a marker followed in document order
\* by a command line, with no other marker in between, is mapped by the
\* marker table to the node of the first such command.
C23_BuilderNodesAndMarkers ==
  pc = "ready" =>
    LET lines == DocumentLines
        cmds == CommandPositions(lines)
    IN /\ Len(tree.branches) = Len(cmds)
       /\ \A i \in 1..Len(cmds) : tree.branches[i].data = CommandOf(lines[cmds[i]])
       /\ \A p \in 1..Len(lines) :
            (/\ lines[p].kind = "Marker"
             /\ CommandsAfter(lines, p) # {}
             /\ \A r \in (p + 1)..Min(CommandsAfter(lines, p)) :
                  lines[r].kind # "Marker")
            => /\ lines[p].name \in DOMAIN marker_to_node_id
               /\ marker_to_node_id[lines[p].name] =
                    NodeOfLine(lines[Min(CommandsAfter(lines, p))].suffix)

\* A script has been built in which a comment stands between a marker and
\* the command the marker is bound to.
C23_Witness ==
  /\ pc = "ready"
  /\ last.op = "new"
  /\ LET lines == DocumentLines
     IN \E p \in 1..Len(lines) :
          /\ lines[p].kind = "Marker"
          /\ p + 2 <= Len(lines)
          /\ lines[p + 1].kind = "Comment"
          /\ lines[p + 2].kind = "Command"
          /\ marker_to_node_id[lines[p].name] = NodeOfLine(lines[p + 2].suffix)

\* ----------------------------------------------------- parse and to_string
\* One indentation unit written by fmt_with_indent.
IndentWidth == 4

\* Script::try_from and Block::try_from convert a Block pair and a Line pair
\* (Line::try_from: a Command or a Marker); any other pair is unreachable!().
RECURSIVE Converts(_)
Converts(pairs) ==
  \A i \in 1..Len(pairs) :
    CASE pairs[i].kind = "Block" -> Converts(pairs[i].inner)
      [] pairs[i].kind \in {"Command", "Marker"} -> TRUE
      [] OTHER -> FALSE

\* Script::parse: the Script of the pairs the grammar yields for the text.
script_parse(txt) ==
  IF Converts(Parse(txt))
  THEN [res |-> "Ok", script |-> Parse(txt)]
  ELSE [res |-> "Panic", script |-> <<>>]

\* A written line: its leading spaces and the line or comment after them.
Written(spaces, kind, name, suffix) ==
  [spaces |-> spaces, kind |-> kind, name |-> name, suffix |-> suffix]

\* Block::fmt_with_indent: an inner block is written one level deeper, a line
\* and a comment after `indent` indentation units.
RECURSIVE fmt_with_indent(_, _)
fmt_with_indent(inner, indent) ==
  IF inner = <<>> THEN <<>>
  ELSE LET el == Head(inner)
       IN (IF el.kind = "Block"
           THEN fmt_with_indent(el.inner, indent + 1)
           ELSE <<Written(IndentWidth * indent, el.kind, el.name, el.suffix)>>)
            \o fmt_with_indent(Tail(inner), indent)

\* Display for TopLevelElement: a block is written with indent 1, a line and
\* a comment as they are.
fmt_element(el) ==
  IF el.kind = "Block"
  THEN fmt_with_indent(el.inner, 1)
  ELSE <<Written(0, el.kind, el.name, el.suffix)>>

\* Display for Script: every element in order.
RECURSIVE to_string(_)
to_string(s) ==
  IF s = <<>> THEN <<>> ELSE fmt_element(Head(s)) \o to_string(Tail(s))

\* The script text as it is written in the file: line i of a text starts
\* with 4 spaces for each level of its depth.
SourceOf(txt) ==
  [i \in 1..Len(txt) |->
     Written(4 * txt[i].depth, txt[i].kind, txt[i].name,
             LineElement(txt[i], i).suffix)]

InitFormat ==
  /\ text \in Texts(MaxLines) \cup ScenarioTexts
  /\ script = <<>>
  /\ result = NoResult
  /\ other_trees = <<>>
  /\ threads = NoThreads
  /\ state_machine = NoMachine
  /\ pc = "text"
  /\ gen \in ScriptBaseIds
  /\ tree = NewTree
  /\ marker_to_node_id = EmptyMap
  /\ state = Done
  /\ tick_count = 0
  /\ last = Constructed(Return("Ok", 0, <<>>))
  /\ hist = <<>>
  /\ steps = <<>>
  /\ added = <<>>

ParseText ==
  /\ pc = "text"
  /\ LET r == script_parse(text)
     IN /\ script' = r.script
        /\ result' = [NoResult EXCEPT !.op = "parse", !.res = r.res]
        /\ pc' = IF r.res = "Ok" THEN "parsed" ELSE "aborted"
  /\ UNCHANGED
       <<gen, tree, marker_to_node_id, state, tick_count, last, hist, steps,
         added, text,
         threads, state_machine, other_trees>>

FormatScript ==
  /\ pc = "parsed"
  /\ result' = [NoResult EXCEPT !.op = "to_string", !.out = to_string(script)]
  /\ UNCHANGED
       <<script, pc, gen, tree, marker_to_node_id, state, tick_count, last,
         hist, steps, added, text,
         threads, state_machine, other_trees>>

NextFormat ==
  \/ ParseText
  \/ FormatScript

SpecFormat == InitFormat /\ [][NextFormat]_vars

\* C24: every script text is parsed, and the parsed script is written back
\* as the text itself: the same lines in the same order, a line d blocks deep
\* after exactly 4 * d spaces.
C24_RoundTrip ==
  /\ result.op = "parse" => result.res = "Ok"
  /\ result.op = "to_string" => result.out = SourceOf(text)

\* C25: tick, choose and goto never change the nodes, the parent-child
\* relations or the marker table of the engine; a call changes nothing but
\* the engine state and the step counter.
C25_EngineNeverEditsTheTree ==
  [][pc = "ready" =>
       /\ tree' = tree
       /\ marker_to_node_id' = marker_to_node_id
       /\ gen' = gen
       /\ script' = script]_vars

\* A tick has emitted a command and a goto has then moved the engine, on a
\* tree of two nodes with a marker table.
C25_Witness ==
  /\ pc = "ready"
  /\ last.op = "goto"
  /\ last.ret.res = "Ok"
  /\ last.before # state
  /\ tick_count > 0
  /\ Len(tree.branches) >= 2
  /\ DOMAIN marker_to_node_id # {}

\* ------------------------------------------------------------ check_syntax
RuleSeverity == {"Allow", "Deny", "Warn"}

SyntaxCheckerOptions(unknown_commands, top_level_block) ==
  [unknown_commands |-> unknown_commands, top_level_block |-> top_level_block]

\* SyntaxCheckerOptions::default.
DefaultOptions == SyntaxCheckerOptions("Deny", "Allow")

START_MARKER_NAME == "START"
END_MARKER_NAME == "END"

\* The names check_command dispatches to a checker of their own.
KnownCommands == {"SAY", "CHOICE", "GOTO", "SET", "IF", "TRIGGER"}

\* A command line with its optional prefix and suffix.
CommandElement(name, prefix, suffix) ==
  [kind |-> "Command", name |-> name, prefix |-> prefix, suffix |-> suffix,
   inner |-> <<>>]

\* str::chars for the texts that occur in the model.
chars(name) ==
  CASE name = "" -> <<>>
    [] name = "-" -> <<"-">>
    [] name = "START" -> <<"S", "T", "A", "R", "T">>
    [] name = "END" -> <<"E", "N", "D">>
    [] name = "NOPE" -> <<"N", "O", "P", "E">>
    [] name = "A-B" -> <<"A", "-", "B">>
    [] name = "hello" -> <<"h", "e", "l", "l", "o">>
    [] name = "Bob" -> <<"B", "o", "b">>
    [] name = "JUMP" -> <<"J", "U", "M", "P">>
    [] name = "SAY" -> <<"S", "A", "Y">>
    [] name = "CHOICE" -> <<"C", "H", "O", "I", "C", "E">>
    [] name = "GOTO" -> <<"G", "O", "T", "O">>
    [] name = "SET" -> <<"S", "E", "T">>
    [] name = "IF" -> <<"I", "F">>
    [] name = "TRIGGER" -> <<"T", "R", "I", "G", "G", "E", "R">>

\* char::is_ascii_uppercase.
is_ascii_uppercase(c) ==
  c \in {"A", "B", "C", "D", "E", "F", "G", "H", "I", "J", "K", "L", "M",
         "N", "O", "P", "Q", "R", "S", "T", "U", "V", "W", "X", "Y", "Z"}

\* is_valid_marker_name: every character is an upper-case letter or '-'.
is_valid_marker_name(name) ==
  \A i \in 1..Len(chars(name)) :
    is_ascii_uppercase(chars(name)[i]) \/ chars(name)[i] = "-"

CheckOk == "Ok"

check_say(say_command) ==
  IF say_command.suffix = None THEN "SAY command must have a suffix"
  ELSE CheckOk

check_choice(choice_command, following_block) ==
  IF choice_command.suffix = None THEN "CHOICE command must have a suffix"
  ELSE IF choice_command.prefix # None
  THEN "The CHOICE command doesn't allow a prefix"
  ELSE CheckOk

check_trigger(trigger_command) ==
  IF trigger_command.prefix # None
  THEN "The TRIGGER command doesn't support a prefix"
  ELSE IF trigger_command.suffix # None THEN CheckOk
  ELSE "The TRIGGER command requires a suffix"

check_goto(goto_command, has_following_sibling) ==
  IF goto_command.prefix # None THEN "The GOTO command doesn't allow a prefix"
  ELSE IF has_following_sibling
  THEN "Any lines after a GOTO command will be unreachable"
  ELSE IF goto_command.suffix # None
  THEN IF is_valid_marker_name(goto_command.suffix[1]) THEN CheckOk
       ELSE "The GOTO command requires a valid marker name"
  ELSE "The GOTO command requires a suffix"

\* check_command. The checkers of SET and IF are not part of the model; no
\* script of the model holds a SET or an IF command.
check_command(command, maybe_block, options) ==
  CASE command.name = "SAY" -> check_say(command)
    [] command.name = "CHOICE" -> check_choice(command, maybe_block)
    [] command.name = "GOTO" -> check_goto(command, maybe_block # None)
    [] command.name = "TRIGGER" -> check_trigger(command)
    [] command.name \notin KnownCommands ->
         IF options.unknown_commands = "Deny" THEN "Unknown command"
         ELSE CheckOk

Contains(seq, x) == \E i \in 1..Len(seq) : seq[i] = x

\* check_syntax_of_pairwise_elements over what is left of the iterator:
\* tuples::<(_, _)>() hands out the elements two by two, (1st, 2nd), (3rd,
\* 4th), ..., and drops a last element that has no partner; only the first
\* of each pair is examined. A Block is checked by check_block, which does
\* the same over the block's elements with the same markers_seen.
RECURSIVE check_syntax_of_pairwise_elements(_, _, _)
check_syntax_of_pairwise_elements(elements, markers_seen, options) ==
  IF Len(elements) < 2 THEN [res |-> CheckOk, markers_seen |-> markers_seen]
  ELSE LET current == elements[1]
           following == elements[2]
           checked ==
             CASE current.kind = "Command" ->
                    [res |-> check_command(
                               current,
                               IF following.kind = "Block" THEN Some(following) ELSE None,
                               options),
                     markers_seen |-> markers_seen]
               [] current.kind = "Marker" ->
                    IF Contains(markers_seen, current.name)
                    THEN [res |-> "Marker shouldn't be declared more than once",
                          markers_seen |-> markers_seen]
                    ELSE [res |-> CheckOk,
                          markers_seen |-> Append(markers_seen, current.name)]
               [] current.kind = "Block" ->
                    check_syntax_of_pairwise_elements(
                      current.inner, markers_seen, options)
               [] OTHER -> [res |-> CheckOk, markers_seen |-> markers_seen]
       IN IF checked.res # CheckOk THEN checked
          ELSE check_syntax_of_pairwise_elements(
                 SubSeq(elements, 3, Len(elements)), checked.markers_seen,
                 options)

\* The first loop of check_syntax_with_options with any marker taken for
\* the START marker.
RECURSIVE ExpectAnyMarker(_, _)
ExpectAnyMarker(script_iter, i) ==
  IF i > Len(script_iter) THEN [res |-> "Script is empty", at |-> i]
  ELSE CASE script_iter[i].kind = "Comment" -> ExpectAnyMarker(script_iter, i + 1)
         [] script_iter[i].kind = "Marker" -> [res |-> CheckOk, at |-> i + 1]
         [] OTHER -> [res |-> "Script must start with a START marker", at |-> i]

\* The first loop of check_syntax_with_options: comments are skipped, and the
\* first other element must be the START marker; `at` is where the iterator
\* stands afterwards.
RECURSIVE ExpectStart(_, _)
ExpectStart(script_iter, i) ==
  IF i > Len(script_iter) THEN [res |-> "Script is empty", at |-> i]
  ELSE CASE script_iter[i].kind = "Comment" -> ExpectStart(script_iter, i + 1)
         [] script_iter[i].kind = "Marker"
              /\ script_iter[i].name = START_MARKER_NAME ->
              [res |-> CheckOk, at |-> i + 1]
         [] script_iter[i].kind = "Marker" ->
              [res |-> "Marker shouldn't be declared before the START marker",
               at |-> i]
         [] OTHER -> [res |-> "Script must start with a START marker", at |-> i]

\* The second loop: the element after START is peeked, never consumed. On a
\* comment the loop continues without advancing, so the call never returns.
Diverges == "never returns"

ExpectCommand(script_iter, i) ==
  IF i > Len(script_iter)
  THEN "The START marker should be followed by at least one command"
  ELSE CASE script_iter[i].kind = "Comment" -> Diverges
         [] script_iter[i].kind = "Marker"
              /\ script_iter[i].name = END_MARKER_NAME ->
              "Scripts must contain at least one command between START and END"
         [] script_iter[i].kind = "Marker" ->
              "Marker shouldn't immediately follow the START marker"
         [] OTHER -> CheckOk

check_syntax_with_options(s, options) ==
  LET started == ExpectStart(s, 1)
  IN IF started.res # CheckOk THEN started.res
     ELSE IF ExpectCommand(s, started.at) # CheckOk
     THEN ExpectCommand(s, started.at)
     ELSE check_syntax_of_pairwise_elements(
            SubSeq(s, started.at, Len(s)), <<START_MARKER_NAME>>, options).res

check_syntax(s) == check_syntax_with_options(s, DefaultOptions)

\* A call that returned an error.
Rejected(res) == res \notin {CheckOk, Diverges}

\* The commands of the scripts handed to check_syntax: a well-formed SAY and
\* GOTO, a GOTO with a prefix, a GOTO without suffix, and a command whose
\* name check_command does not know.
CheckCommands ==
  {CommandElement("SAY", None, Some("hello")),
   CommandElement("GOTO", None, Some("END")),
   CommandElement("GOTO", Some("Bob"), Some("END")),
   CommandElement("GOTO", None, None),
   CommandElement("JUMP", None, Some("hello"))}

CheckElements ==
  {MarkerLine(m) : m \in MarkerNames} \cup {CommentElement} \cup CheckCommands

\* A line or comment of a Script and the number of blocks it lies in.
Placed(el, depth) == [el |-> el, depth |-> depth]

\* The sequences of placed elements: the first lies in no block, and an
\* element lies at most one block deeper than the one before it.
RECURSIVE Layouts(_)
Layouts(n) ==
  IF n = 0 THEN {<<>>}
  ELSE LET shorter == Layouts(n - 1)
           longest == {t \in shorter : Len(t) = n - 1}
       IN shorter \cup
          {Append(x[1], Placed(x[2], x[3])) :
             x \in {y \in longest \X CheckElements \X (0..MaxDepth) :
                      y[3] <= (IF y[1] = <<>> THEN 0
                               ELSE y[1][Len(y[1])].depth + 1)}}

\* The Script value of a layout: a run of deeper elements is one Block.
RECURSIVE ScriptAt(_, _, _, _)
ScriptAt(layout, from, to, d) ==
  IF from > to THEN <<>>
  ELSE IF layout[from].depth <= d
       THEN <<layout[from].el>> \o ScriptAt(layout, from + 1, to, d)
       ELSE LET n == DeeperRun(SubSeq(layout, 1, to), from, d)
            IN <<Block(ScriptAt(layout, from, from + n - 1, d + 1))>>
                 \o ScriptAt(layout, from + n, to, d)

CheckScripts == {ScriptAt(l, 1, Len(l), 0) : l \in Layouts(MaxLines)}

InitCheck ==
  /\ script \in CheckScripts
  /\ text = <<>>
  /\ result = NoResult
  /\ other_trees = <<>>
  /\ threads = NoThreads
  /\ state_machine = NoMachine
  /\ pc = "script"
  /\ gen \in ScriptBaseIds
  /\ tree = NewTree
  /\ marker_to_node_id = EmptyMap
  /\ state = Done
  /\ tick_count = 0
  /\ last = Constructed(Return("Ok", 0, <<>>))
  /\ hist = <<>>
  /\ steps = <<>>
  /\ added = <<>>

CheckSyntax(options) ==
  /\ pc = "script"
  /\ result' = [NoResult EXCEPT !.op = "check_syntax",
                                !.res = check_syntax_with_options(script, options),
                                !.options = options]
  /\ pc' = "checked"
  /\ UNCHANGED
       <<script, gen, tree, marker_to_node_id, state, tick_count, last, hist,
         steps, added, text,
         threads, state_machine, other_trees>>

NextCheck ==
  \E unknown_commands \in RuleSeverity :
    CheckSyntax(SyntaxCheckerOptions(unknown_commands, "Allow"))

SpecCheck == InitCheck /\ [][NextCheck]_vars

\* The marker names an element sequence declares, at any depth, one entry
\* for each declaration.
RECURSIVE MarkersDeclared(_)
MarkersDeclared(elements) ==
  IF elements = <<>> THEN <<>>
  ELSE LET el == Head(elements)
       IN (CASE el.kind = "Marker" -> <<el.name>>
             [] el.kind = "Block" -> MarkersDeclared(el.inner)
             [] OTHER -> <<>>)
            \o MarkersDeclared(Tail(elements))

DeclaredTwice(elements) ==
  LET names == MarkersDeclared(elements)
  IN \E i, j \in 1..Len(names) : i < j /\ names[i] = names[j]

\* C26: check_syntax rejects every script that declares a marker name twice,
\* wherever in the script and however deep the two declarations are.
C26_DuplicateMarkerRejected ==
  (result.op = "check_syntax" /\ result.options = DefaultOptions
     /\ DeclaredTwice(script))
    => Rejected(result.res)

\* Some command of the elements, at any depth, has a name check_command
\* does not know.
RECURSIVE UnknownCommandIn(_)
UnknownCommandIn(elements) ==
  \E i \in 1..Len(elements) :
    CASE elements[i].kind = "Command" -> elements[i].name \notin KnownCommands
      [] elements[i].kind = "Block" -> UnknownCommandIn(elements[i].inner)
      [] OTHER -> FALSE

\* C27: with unknown commands denied (the default), check_syntax rejects
\* every script that holds a command whose name is none of SAY, CHOICE, GOTO,
\* SET, IF, TRIGGER, wherever the command stands; with Allow or Warn no
\* script is rejected for an unknown command.
C27_UnknownCommandSeverity ==
  result.op = "check_syntax" =>
    /\ (result.options.unknown_commands = "Deny" /\ UnknownCommandIn(script))
         => Rejected(result.res)
    /\ result.options.unknown_commands \in {"Allow", "Warn"}
         => result.res # "Unknown command"

IsGoto(el) == el.kind = "Command" /\ el.name = "GOTO"

\* A GOTO of the elements, at any depth, is followed by a command or a marker
\* in its own block.
RECURSIVE GotoBeforeLine(_)
GotoBeforeLine(elements) ==
  \E i \in 1..Len(elements) :
    \/ /\ IsGoto(elements[i])
       /\ i < Len(elements)
       /\ elements[i + 1].kind \in {"Command", "Marker"}
    \/ /\ elements[i].kind = "Block"
       /\ GotoBeforeLine(elements[i].inner)

\* A GOTO of the elements, at any depth, has a prefix or lacks its suffix.
RECURSIVE GotoMalformed(_)
GotoMalformed(elements) ==
  \E i \in 1..Len(elements) :
    \/ /\ IsGoto(elements[i])
       /\ (elements[i].prefix # None \/ elements[i].suffix = None)
    \/ /\ elements[i].kind = "Block"
       /\ GotoMalformed(elements[i].inner)

\* C28: check_syntax rejects a script in which a GOTO is followed by another
\* line (a command or a marker) in the same block, and a script in which a
\* GOTO has a prefix or has no suffix.
C28_GotoEndsItsBlock ==
  (result.op = "check_syntax" /\ result.options = DefaultOptions
     /\ (GotoBeforeLine(script) \/ GotoMalformed(script)))
    => Rejected(result.res)

\* The position of the first element that is not a comment, 0 if none.
RECURSIVE FirstNonComment(_, _)
FirstNonComment(s, i) ==
  IF i > Len(s) THEN 0
  ELSE IF s[i].kind # "Comment" THEN i
  ELSE FirstNonComment(s, i + 1)

StartsWithStart(s) ==
  LET i == FirstNonComment(s, 1)
  IN i # 0 /\ s[i].kind = "Marker" /\ s[i].name = START_MARKER_NAME

\* C29: check_syntax rejects the empty script and every script whose first
\* element other than a comment is not the START marker.
C29_MustStartWithStart ==
  (result.op = "check_syntax" /\ ~StartsWithStart(script))
    => Rejected(result.res)

\* A script of a comment, the END marker and a command has been rejected.
C29_Witness ==
  /\ result.op = "check_syntax"
  /\ result.options = DefaultOptions
  /\ Len(script) = 3
  /\ script[1].kind = "Comment"
  /\ script[2] = MarkerLine(END_MARKER_NAME)
  /\ script[3].kind = "Command"
  /\ Rejected(result.res)

\* The last call was a tick that emitted a CHOICE command whose node has no
\* children.
LeafChoiceEmitted ==
  /\ pc = "ready"
  /\ last.op = "tick"
  /\ last.ret.res = "Ok"
  /\ last.ret.commands # <<>>
  /\ is_choice(last.ret.commands[1])
  /\ children_of(tree, last.before.nodes[1]) = <<>>

\* C30: a tick that emits a CHOICE node without children leaves the engine
\* in AwaitingChoice with no options; from there tick fails with
\* IllegalState, no choose(i) succeeds, and the only call that changes the
\* state is a goto to a marker of the table.
C30_LeafChoiceIsStuck ==
  /\ LeafChoiceEmitted => state = AwaitingChoice(<<>>)
  /\ (pc = "ready" /\ state = AwaitingChoice(<<>>)) =>
       /\ tick(Self).ret.res = "IllegalState"
       /\ tick(Self).self.state = state
       /\ \A i \in 0..MaxChoice :
            /\ choose(Self, i).ret.res # "Ok"
            /\ choose(Self, i).self.state = state
       /\ \A m \in MarkerNames \cup {UnknownMarker} :
            IF m \in DOMAIN marker_to_node_id
            THEN /\ goto(Self, m).ret.res = "Ok"
                 /\ goto(Self, m).self.state = AwaitingTick(marker_to_node_id[m])
            ELSE goto(Self, m).self.state = state

\* A tick has emitted a childless CHOICE and the tick made right after it
\* was refused, the engine still waiting for a choice among no options.
C30_Witness ==
  /\ pc = "ready"
  /\ last.op = "tick"
  /\ last.ret.res = "IllegalState"
  /\ last.follows.op = "tick"
  /\ last.before = AwaitingChoice(<<>>)
  /\ state = AwaitingChoice(<<>>)

\* ------------------------------------------- the engine at a choice group
\* The lines of option i (counted from zero) of the branching dialogue: its
\* CHOICE line and the lines of its block.
OptionLines(i) == IF i = 0 THEN {4, 5, 6} ELSE {7, 8}

\* C31 (as claimed): in the branching dialogue of the crate documentation
\* the tick after the one that emits the first line emits the line owning the
\* choice group and reaches a choice point with the two CHOICE nodes as
\* options; choose(i) succeeds there, and the ticks that follow (the caller
\* makes no goto) emit only commands of option i and then the line after the
\* whole group, never the CHOICE line or a block command of the other
\* option.
C31_OtherOptionsNeverRun ==
  (/\ pc = "ready"
   /\ text = BranchingText
   /\ last.op = "tick"
   /\ last.ret.res = "Ok"
   /\ last.ret.commands = <<Command("SAY", 2)>>) =>
    LET owner == tick(Self)
    IN /\ owner.ret.res = "Ok"
       /\ owner.ret.commands = <<Command("SAY", 3)>>
       /\ owner.self.state = AwaitingChoice(<<NodeOfLine(4), NodeOfLine(7)>>)
       /\ \A i \in 0..1 :
            LET r == choose(owner.self, i)
                rets == Emitted(r.self, Len(tree.branches))
            IN /\ r.ret.res = "Ok"
               /\ \A k \in 1..Len(rets) :
                    rets[k].commands # <<>> =>
                      rets[k].commands[1].suffix \in OptionLines(i) \cup {9}

\* C32: check_syntax_with_options returns, with Ok or with an error, for
\* every script, a script with comments right after the START marker
\* included.
C32_CheckSyntaxReturns ==
  result.op = "check_syntax" => result.res # Diverges

\* What the engine can do in at most n further calls of tick and choose that
\* succeed and change it: the nodes emitted, in order, and the engine reached.
RECURSIVE Futures(_, _)
Futures(self, n) ==
  LET here == [emitted |-> <<>>, self |-> self]
  IN IF n = 0 THEN {here}
     ELSE LET calls == {tick(self)} \cup {choose(self, i) : i \in 0..MaxChoice}
              moved == {r \in calls : r.ret.res = "Ok" /\ r.self # self}
              Nodes(r) == IF r.ret.commands # <<>> THEN self.state.nodes
                          ELSE <<>>
          IN {here} \cup
             UNION {{[emitted |-> Nodes(r) \o f.emitted, self |-> f.self] :
                       f \in Futures(r.self, n - 1)} : r \in moved}

NoRepeat(seq) == \A i, j \in 1..Len(seq) : i # j => seq[i] # seq[j]

\* C33: while no goto succeeds, tick emits every node at most once: at most
\* N ticks of an engine over N nodes return a command, and once N have the
\* engine is Done or AwaitingChoice.
C33_EveryNodeAtMostOnce ==
  (pc = "ready" /\ DOMAIN marker_to_node_id = {}) =>
    \A f \in Futures(Self, 2 * Len(tree.branches) + 1) :
      /\ NoRepeat(f.emitted)
      /\ Len(f.emitted) <= Len(tree.branches)
      /\ Len(f.emitted) = Len(tree.branches)
           => f.self.state.tag \in {"Done", "AwaitingChoice"}

\* An engine over three nodes that has emitted none yet and can emit all of
\* them, ending Done.
C33_Witness ==
  /\ pc = "ready"
  /\ tick_count = 0
  /\ Len(tree.branches) = 3
  /\ \E f \in Futures(Self, 2 * Len(tree.branches) + 1) :
       Len(f.emitted) = 3 /\ f.self.state = Done

\* The engine waits at nodes of its tree.
StateHoldsNodes ==
  pc = "ready" => \A i \in 1..Len(state.nodes) : state.nodes[i] \in NodeIds(tree)

\* A step that enters AwaitingChoice, or changes the options waited on, is a
\* tick made in AwaitingTick that returned the command of its node, and the
\* options are the children of that node, in order.
EntersChoiceByTick ==
  (state'.tag = "AwaitingChoice" /\ state' # state) =>
    /\ last'.op = "tick"
    /\ last'.ret.res = "Ok"
    /\ state.tag = "AwaitingTick"
    /\ last'.ret.commands = <<get_by_id(tree, state.nodes[1])[1]>>
    /\ state'.nodes = InsertedChildren(state.nodes[1])

\* The engine StateTree::new builds from a document, where goto resolves
\* the document's markers, and the engine over any arena tree, where nodes
\* have children.
InitEngine == Init \/ InitArena

SpecEngine == InitEngine /\ [][NextArena]_vars

\* C34: AwaitingTick(n) always holds a node n of the tree, whether new, tick,
\* choose or goto put it there; AwaitingChoice(ns) is entered by tick only,
\* with ns the ordered children of the node that tick emitted, and is left
\* unchanged until it is left.
C34_StatesHoldNodes ==
  [](StateHoldsNodes) /\ [][EntersChoiceByTick]_vars

\* A goto has succeeded from AwaitingChoice, the tick after it has emitted
\* the CHOICE command the marker is bound to, and the engine waits for a
\* choice among the children of that node.
C34_Witness ==
  /\ pc = "ready"
  /\ last.op = "tick"
  /\ last.follows.op = "goto"
  /\ last.ret.commands # <<>>
  /\ last.before.nodes[1] = marker_to_node_id[last.follows.marker]
  /\ state.tag = "AwaitingChoice"
  /\ state.nodes = InsertedChildren(last.before.nodes[1])

\* ------------------------------------- the arena in a process with other trees
\* Other trees of the process take identities from the same ID_GENERATOR.
\* The number of other trees that are built while this one is.
MaxOthers == 2

\* The sizes of the other trees: one node, or as many nodes as make the
\* generator come round to the identity it handed out last.
OtherTreeSizes == {1, IdModulus - 1}

\* get_next_id called n times: the generator after the calls.
get_next_id_times(from, n) == (from + n) % IdModulus

\* Another tree is built in the process with n nodes, each pushed with an
\* identity from get_next_id, between two calls on this tree.
AllocatedElsewhere(n) ==
  /\ pc = "arena"
  /\ Len(other_trees) < MaxOthers
  /\ gen' = get_next_id_times(gen, n)
  /\ other_trees' = Append(other_trees, n)
  /\ UNCHANGED
       <<script, pc, tree, marker_to_node_id, state, tick_count, last, hist,
         steps, added, text, result, threads, state_machine>>

NextSharedIds ==
  \/ \E name \in CommandNames : ArenaPush(name)
  \/ \E name \in CommandNames, parent \in NodeIds(tree) :
       ArenaPushWithParent(name, parent)
  \/ \E n \in OtherTreeSizes : AllocatedElsewhere(n)

SpecSharedIds == InitArena /\ [][NextSharedIds]_vars

\* The parents recorded for a node.
ParentsOf(t, id) ==
  {t.parent_child_relationships[i][1] :
     i \in {j \in 1..Len(t.parent_child_relationships) :
              t.parent_child_relationships[j][2] = id}}

\* Following parent_of from id for n steps ends at a root.
RECURSIVE ReachesRoot(_, _, _)
ReachesRoot(t, id, n) ==
  IF parent_of(t, id) = None THEN TRUE
  ELSE IF n = 0 THEN FALSE
  ELSE ReachesRoot(t, parent_of(t, id)[1], n - 1)

\* C35: after push and push_with_parent calls whose parents exist, every
\* node has at most one parent, every parent was added before its child, and
\* the parent relation has no cycle, so that Tree::next terminates.
C35_ParentsFormAForest ==
  pc = "arena" =>
    /\ \A i \in 1..Len(tree.branches) :
         Cardinality(ParentsOf(tree, tree.branches[i].id)) <= 1
    /\ \A r \in 1..Len(tree.parent_child_relationships) :
         \E i, j \in 1..Len(tree.branches) :
           /\ i < j
           /\ tree.branches[i].id = tree.parent_child_relationships[r][1]
           /\ tree.branches[j].id = tree.parent_child_relationships[r][2]
    /\ \A i \in 1..Len(tree.branches) :
         ReachesRoot(tree, tree.branches[i].id, Len(tree.branches))

\* A declaration of the marker is followed, in document order, by a command.
HasCommandAfter(lines, name) ==
  \E p \in MarkerPositions(lines, name) : CommandsAfter(lines, p) # {}

\* A declaration of the marker is followed, in document order, by a command
\* with no other marker between the two.
BoundToCommand(lines, name) ==
  \E p \in MarkerPositions(lines, name) :
    /\ CommandsAfter(lines, p) # {}
    /\ \A r \in (p + 1)..Min(CommandsAfter(lines, p)) : lines[r].kind # "Marker"

\* C36 (as claimed): goto(name) succeeds exactly when name is a marker of
\* the document with a command line after it in document order, and fails
\* with the unknown-marker error otherwise.
C36_GotoKnowsMarkersBeforeCommands ==
  pc = "ready" =>
    \A name \in MarkerNames \cup {UnknownMarker} :
      goto(Self, name).ret.res =
        IF HasCommandAfter(DocumentLines, name) THEN "Ok" ELSE "UnknownMarker"

\* C36 (amended): goto(name) succeeds exactly when name is a marker of the
\* document that is followed, in document order, by a command line with no
\* other marker between the two, and fails with the unknown-marker error
\* otherwise; a trailing END marker is unknown.
C36_GotoKnowsBoundMarkers ==
  pc = "ready" =>
    LET lines == DocumentLines
    IN \A name \in MarkerNames \cup {UnknownMarker} :
         goto(Self, name).ret.res =
           IF BoundToCommand(lines, name) THEN "Ok" ELSE "UnknownMarker"

\* goto("END") has failed on a document that ends with the END marker and
\* whose START marker is bound to a command.
C36_Witness ==
  /\ pc = "ready"
  /\ last.op = "goto"
  /\ last.marker = "END"
  /\ last.ret.res = "UnknownMarker"
  /\ DocumentLines[Len(DocumentLines)] = [kind |-> "Marker", name |-> "END",
                                           suffix |-> 0, depth |-> 0]
  /\ goto(Self, "START").ret.res = "Ok"

\* The build after the first k lines of the document have been traversed.
BuildAfter(k, base, debug) ==
  TraverseEach(NewBuild(base), None, Parse(SubSeq(text, 1, k)), debug)

\* Markers at positions p < q of the document with no command between them.
NoCommandBetween(lines, p, q) ==
  /\ p < q
  /\ lines[p].kind = "Marker"
  /\ lines[q].kind = "Marker"
  /\ \A r \in (p + 1)..(q - 1) : lines[r].kind # "Command"

\* C37: at every moment of the build at most one marker is pending, and the
\* marker table of the engine is injective. When two markers occur with no
\* command between them, the debug build aborts, and the release build never
\* enters the earlier marker into the table and binds the marker that comes
\* last before the next command to that command. The build is examined in
\* the state StateTree::new leaves, the table in every state.
C37_OnePendingMarkerInjectiveTable ==
  LET lines == DocumentLines
  IN /\ last.op = "new" =>
          /\ \A k \in 0..Len(text), base \in ScriptBaseIds, debug \in BOOLEAN :
               Len(BuildAfter(k, base, debug).marker_awaiting_node_id) <= 1
          /\ (\E p, q \in 1..Len(lines) : NoCommandBetween(lines, p, q)) =>
               \A base \in ScriptBaseIds : Build(script, base, TRUE).panicked
     /\ pc = "ready" =>
          /\ \A m1, m2 \in DOMAIN marker_to_node_id :
               m1 # m2 => marker_to_node_id[m1] # marker_to_node_id[m2]
          /\ \A p, q \in 1..Len(lines) :
               NoCommandBetween(lines, p, q) =>
                 /\ lines[p].name \notin DOMAIN marker_to_node_id
                 /\ BoundToCommand(lines, lines[q].name) =>
                      /\ lines[q].name \in DOMAIN marker_to_node_id
                      /\ marker_to_node_id[lines[q].name] =
                           NodeOfLine(lines[Min(CommandsAfter(lines, q))].suffix)

\* The release build of a document whose START marker is directly followed
\* by its END marker and then by a command: only END is in the table.
C37_Witness ==
  /\ pc = "ready"
  /\ Len(DocumentLines) >= 3
  /\ NoCommandBetween(DocumentLines, 1, 2)
  /\ DocumentLines[3].kind = "Command"
  /\ DOMAIN marker_to_node_id = {DocumentLines[2].name}

\* ------------------------------------------------ trees built concurrently
\* Each thread owns one tree and calls push and push_with_parent on it; all
\* threads draw identities from the one ID_GENERATOR of the process. The
\* fetch_add of get_next_id is one atomic step; what push does with the
\* identity afterwards touches the thread's own tree only.
ThreadNames == {"a", "b"}

\* The number of nodes a thread adds to its tree.
MaxPushes == 2

InitThreads ==
  /\ script = <<>>
  /\ text = <<>>
  /\ result = NoResult
  /\ other_trees = <<>>
  /\ state_machine = NoMachine
  /\ pc = "threads"
  /\ gen \in BaseIds
  /\ tree = NewTree
  /\ marker_to_node_id = EmptyMap
  /\ state = Done
  /\ tick_count = 0
  /\ last = Constructed(Return("Ok", 0, <<>>))
  /\ hist = <<>>
  /\ steps = <<>>
  /\ added = <<>>
  /\ threads = [t \in ThreadNames |-> [tree |-> NewTree, call |-> None]]

\* The number of identities the process has handed out: the generator starts
\* at zero, and every call adds one.
Allocated == IF added = <<>> THEN gen ELSE added[Len(added)].nth + 1

\* Thread t enters push (parent = None) or push_with_parent and executes
\* get_next_id.
ThreadGetNextId(t, name, parent) ==
  /\ pc = "threads"
  /\ threads[t].call = None
  /\ Len(threads[t].tree.branches) < MaxPushes
  /\ parent # None => parent[1] \in NodeIds(threads[t].tree)
  /\ LET n == get_next_id(gen)
     IN /\ gen' = n.gen
        /\ threads' = [threads EXCEPT ![t].call =
                         Some([data |-> Command(name, Len(added) + 1),
                               parent |-> parent, id |-> n.id])]
        /\ added' = Append(added, [id |-> n.id, parent |-> parent,
                                   thread |-> t, nth |-> Allocated])
  /\ UNCHANGED
       <<script, pc, tree, marker_to_node_id, state, tick_count, last, hist,
         steps, text, result, state_machine, other_trees>>

\* Thread t finishes the call it is in: the branch, and the relationship of
\* push_with_parent, are added to its own tree and the identity is returned.
ThreadPush(t) ==
  /\ pc = "threads"
  /\ threads[t].call # None
  /\ LET call == threads[t].call[1]
         pushed == IF call.parent = None
                   THEN push(threads[t].tree, call.id, call.data)
                   ELSE push_with_parent(threads[t].tree, call.id, call.data,
                                         call.parent[1], TRUE)
     IN threads' = [threads EXCEPT ![t] = [tree |-> pushed.tree, call |-> None]]
  /\ UNCHANGED
       <<script, pc, gen, tree, marker_to_node_id, state, tick_count, last,
         hist, steps, added, text, result, state_machine, other_trees>>

NextThreads ==
  \/ \E t \in ThreadNames, name \in CommandNames :
       ThreadGetNextId(t, name, None)
  \/ \E t \in ThreadNames, name \in CommandNames :
       \E parent \in NodeIds(threads[t].tree) :
         ThreadGetNextId(t, name, Some(parent))
  \/ \E t \in ThreadNames : ThreadPush(t)

SpecThreads == InitThreads /\ [][NextThreads]_vars

\* C38: while fewer than 2^16 nodes have been allocated in the process, a
\* push or push_with_parent call of any thread obtains an identity that no
\* other call of the process obtained, before or at the same time, so the
\* trees of two threads never hold the same identity.
C38_EveryCallGetsItsOwnId ==
  pc = "threads" =>
    /\ \A j \in 1..Len(added) :
         added[j].nth < IdModulus =>
           /\ added[j].id = added[j].nth
           /\ \A i \in 1..(j - 1) : added[i].id # added[j].id
    /\ Allocated <= IdModulus =>
         \A t, u \in ThreadNames :
           t # u => NodeIds(threads[t].tree) \cap NodeIds(threads[u].tree) = {}

\* Both threads were inside a call at the same time, each holding an
\* identity, and the process has handed out its last fresh identity.
C38_Witness ==
  /\ pc = "threads"
  /\ Allocated = IdModulus
  /\ \A t \in ThreadNames : threads[t].call # None

\* ------------------------------------------- the line-based StateMachine
\* The StateMachine the run loop drives: current_line is an index into the
\* top-level elements of the script, counted from zero.
MaxElements == 3

GotoCommands ==
  {CommandElement("GOTO", None, Some(m)) : m \in MarkerNames \cup {UnknownMarker}}

\* The commands the arms of the run loop tell apart.
RunCommands ==
  GotoCommands
    \cup {CommandElement("SAY", None, Some("hello")),
          CommandElement("SAY", Some("Bob"), None),
          CommandElement("CHOICE", None, Some("hello")),
          CommandElement("CHOICE", None, None),
          CommandElement("SET", None, Some("hello")),
          CommandElement("TRIGGER", None, Some("hello")),
          CommandElement("IF", None, Some("hello")),
          CommandElement("JUMP", None, Some("hello"))}

MachineElements ==
  {MarkerLine(m) : m \in MarkerNames}
    \cup RunCommands
    \cup {CommentElement,
          Block(<<CommandElement("CHOICE", None, Some("hello"))>>)}

RECURSIVE MachineScripts(_)
MachineScripts(n) ==
  IF n = 0 THEN {<<>>}
  ELSE LET shorter == MachineScripts(n - 1)
       IN shorter \cup
          {Append(s, el) : s \in {x \in shorter : Len(x) = n - 1},
                           el \in MachineElements}

\* Vec::get on the top-level elements.
get_tle(self, line_number) ==
  IF line_number < Len(self.script) THEN Some(self.script[line_number + 1])
  ELSE None

set_current_line_number(self, line_number) ==
  [self EXCEPT !.current_line = line_number]

\* build_marker_map over the first n top-level elements: the line number of
\* every top-level marker, or the error of a marker declared twice.
RECURSIVE build_marker_map_upto(_, _)
build_marker_map_upto(elements, n) ==
  IF n = 0 THEN [res |-> "Ok", marker_map |-> EmptyMap]
  ELSE LET sofar == build_marker_map_upto(elements, n - 1)
           el == elements[n]
       IN IF sofar.res # "Ok" \/ el.kind # "Marker" THEN sofar
          ELSE IF el.name \in DOMAIN sofar.marker_map
          THEN [sofar EXCEPT !.res = "Duplicate marker"]
          ELSE [sofar EXCEPT
                  !.marker_map = MapInsert(@, el.name, n - 1)]

build_marker_map(elements) == build_marker_map_upto(elements, Len(elements))

\* Builder::build.
build(elements) ==
  LET built == build_marker_map(elements)
  IN [res |-> built.res,
      self |-> [current_line |-> 0, marker_map |-> built.marker_map,
                script |-> elements]]

\* StateMachine::next_command: the element at current_line is taken and
\* current_line advanced, until the element is a command or there is none.
RECURSIVE next_command(_)
next_command(self) ==
  LET line == get_tle(self, self.current_line)
      advanced == [self EXCEPT !.current_line = @ + 1]
  IN IF line = None THEN [self |-> advanced, out |-> None]
     ELSE IF line[1].kind = "Command" THEN [self |-> advanced, out |-> line]
     ELSE next_command(advanced)

\* StateMachine::follow_goto.
follow_goto(self) ==
  LET tle == get_tle(self, self.current_line)
  IN IF tle = None
     THEN [self |-> self,
           res |-> "expected there to be a current top-level element"]
     ELSE IF tle[1].kind \notin {"Command", "Marker"}
     THEN [self |-> self, res |-> "expected top-level element to be a line"]
     ELSE IF tle[1].kind # "Marker"
     THEN [self |-> self, res |-> "expected line to be a marker"]
     ELSE IF tle[1].name \in DOMAIN self.marker_map
     THEN [self |-> [self EXCEPT !.current_line = self.marker_map[tle[1].name]],
           res |-> "Ok"]
     ELSE [self |-> self, res |-> "No marker named"]

\* The loop of enter_choice_block over the elements of the block: the first
\* element that is not a CHOICE command with a suffix, or a comment, ends it.
RECURSIVE enter_choice_block_elements(_)
enter_choice_block_elements(block_elements) ==
  IF block_elements = <<>> THEN "Ok"
  ELSE LET el == Head(block_elements)
       IN CASE el.kind = "Comment" ->
                 enter_choice_block_elements(Tail(block_elements))
            [] el.kind = "Block" -> "Panic"
            [] el.kind = "Marker" -> "matching a CHOICE command"
            [] OTHER ->
                 IF el.name # "CHOICE" THEN "Panic"
                 ELSE IF el.suffix = None THEN "getting CHOICE text"
                 ELSE enter_choice_block_elements(Tail(block_elements))

\* StateMachine::enter_choice_block; it leaves the machine as it is.
enter_choice_block(self) ==
  LET tle == get_tle(self, self.current_line)
  IN IF tle = None THEN "expected there to be a current top-level element"
     ELSE IF tle[1].kind # "Block"
     THEN "expected top-level element to be a block"
     ELSE enter_choice_block_elements(tle[1].inner)

\* The first loop of choice_command: next_command is called until it returns
\* no command or a command that is not a CHOICE; the line number the machine
\* is at after each CHOICE is collected.
RECURSIVE collect_choices(_, _)
collect_choices(self, choices) ==
  LET r == next_command(self)
  IN IF r.out # None /\ r.out[1].name = "CHOICE"
     THEN collect_choices(r.self, Append(choices, r.self.current_line))
     ELSE [self |-> r.self, choices |-> choices]

\* The element at a collected line number is a command with a suffix; the
\* unwrap and expect calls of choice_command panic otherwise.
is_choice_with_suffix(self, line_number) ==
  LET tle == get_tle(self, line_number)
  IN /\ tle # None
     /\ tle[1].kind = "Command"
     /\ tle[1].suffix # None

\* What one read_line of choice_command finds on stdin: the read fails, or
\* it returns a line that parses as a number or does not (an empty line, the
\* end of the input included).
ReadFailed == [read |-> "Err", number |-> None]
NotANumber == [read |-> "Ok", number |-> None]
Typed(i) == [read |-> "Ok", number |-> Some(i)]

StdinLines == {ReadFailed, NotANumber} \cup {Typed(i) : i \in 0..MaxChoice}

\* choice_command up to its prompt: the choices are collected and looked up;
\* the machine is left where the collecting loop put it.
choice_prompt(self) ==
  LET c == collect_choices(self, <<self.current_line>>)
  IN [self |-> c.self, choices |-> c.choices,
      res |-> IF \E i \in 1..Len(c.choices) :
                   ~is_choice_with_suffix(c.self, c.choices[i])
              THEN "Panic" ELSE "Choose:"]

\* One turn of the input loop of choice_command: a failed read is returned,
\* a number that names a choice moves the machine to the line collected for
\* it and enters the choice block, anything else is refused.
choice_read(self, choices, line) ==
  IF line.read = "Err"
  THEN [self |-> self, res |-> "stream did not contain valid UTF-8"]
  ELSE IF line.number # None /\ line.number[1] < Len(choices)
  THEN LET chosen == set_current_line_number(self, choices[line.number[1] + 1])
       IN [self |-> chosen, res |-> enter_choice_block(chosen)]
  ELSE [self |-> self, res |-> "Invalid choice. Try again."]

\* The input loop over what stdin holds; at the end of the input every read
\* returns an empty line, which is refused, and the loop never ends.
RECURSIVE choice_input_loop(_, _, _)
choice_input_loop(self, choices, stdin) ==
  IF stdin = <<>> THEN [self |-> self, res |-> Diverges]
  ELSE LET r == choice_read(self, choices, Head(stdin))
       IN IF r.res = "Invalid choice. Try again."
          THEN choice_input_loop(self, choices, Tail(stdin))
          ELSE r

\* choice_command on a stdin that holds the given lines.
choice_command(self, stdin) ==
  LET p == choice_prompt(self)
  IN IF p.res = "Panic" THEN [self |-> p.self, res |-> "Panic"]
     ELSE choice_input_loop(p.self, p.choices, stdin)

\* say_command of the run loop.
say_command(command) ==
  IF command.suffix # None THEN "Ok" ELSE "Invalid say command"

\* run up to its loop: the machine is built, or run returns the error.
InitMachine ==
  \E elements \in MachineScripts(MaxElements) :
    LET built == build(elements)
    IN /\ script = elements
       /\ text = <<>>
       /\ result = [NoResult EXCEPT !.op = "build", !.res = built.res]
       /\ other_trees = <<>>
       /\ threads = NoThreads
       /\ state_machine = built.self
       /\ pc = IF built.res = "Ok" THEN "machine" ELSE "returned"
       /\ gen = 0
       /\ tree = NewTree
       /\ marker_to_node_id = EmptyMap
       /\ state = Done
       /\ tick_count = 0
       /\ last = Constructed(Return("Ok", 0, <<>>))
       /\ hist = <<>>
       /\ steps = <<>>
       /\ added = <<>>

\* What an arm of the loop leaves: the machine, the call made and what it
\* returned. An error ends run through `?`, a panic aborts it.
Arm(self, op, res) ==
  /\ state_machine' = self
  /\ result' = [NoResult EXCEPT !.op = op, !.res = res]
  /\ pc' = CASE res = "Ok" -> "machine"
             [] res = "Panic" -> "aborted"
             [] OTHER -> "returned"
  /\ UNCHANGED
       <<script, gen, tree, marker_to_node_id, state, tick_count, last, hist,
         steps, added, text, threads, other_trees>>

\* The head of the loop: next_command; run returns when there is no command.
NextCommand ==
  /\ pc = "machine"
  /\ LET r == next_command(state_machine)
     IN /\ state_machine' = r.self
        /\ result' = [NoResult EXCEPT !.op = "next_command", !.out = r.out]
        /\ pc' = IF r.out = None THEN "returned" ELSE "dispatch"
  /\ UNCHANGED
       <<script, gen, tree, marker_to_node_id, state, tick_count, last, hist,
         steps, added, text, threads, other_trees>>

SayCommand ==
  /\ pc = "dispatch"
  /\ result.out[1].name = "SAY"
  /\ Arm(state_machine, "say_command", say_command(result.out[1]))

FollowGoto ==
  /\ pc = "dispatch"
  /\ result.out[1].name = "GOTO"
  /\ LET r == follow_goto(state_machine)
     IN Arm(r.self, "follow_goto", r.res)

\* The CHOICE arm up to the wait for input: choice_command collects and
\* prints the choices, or panics on a choice it cannot look up.
ChoiceCommand ==
  /\ pc = "dispatch"
  /\ result.out[1].name = "CHOICE"
  /\ LET p == choice_prompt(state_machine)
     IN IF p.res = "Panic"
        THEN Arm(p.self, "choice_command", "Panic")
        ELSE /\ state_machine' = p.self
             /\ result' = [NoResult EXCEPT !.op = "choice_command",
                                           !.res = p.res, !.out = p.choices]
             /\ pc' = "choosing"
             /\ UNCHANGED
                  <<script, gen, tree, marker_to_node_id, state, tick_count,
                    last, hist, steps, added, text, threads, other_trees>>

\* One read_line of the waiting choice_command: a refused line keeps it
\* waiting, a failed read or an accepted number ends the CHOICE arm.
ReadLine(line) ==
  /\ pc = "choosing"
  /\ LET r == choice_read(state_machine, result.out, line)
     IN IF r.res = "Invalid choice. Try again."
        THEN /\ result' = [result EXCEPT !.res = r.res]
             /\ UNCHANGED
                  <<script, pc, gen, tree, marker_to_node_id, state,
                    tick_count, last, hist, steps, added, text, threads,
                    state_machine, other_trees>>
        ELSE Arm(r.self, "choice_command", r.res)

\* The SET, TRIGGER and IF arms: todo!().
Unimplemented ==
  /\ pc = "dispatch"
  /\ result.out[1].name \in {"SET", "TRIGGER", "IF"}
  /\ Arm(state_machine, "todo", "Panic")

\* The last arm: the command is printed as unhandled.
Unhandled ==
  /\ pc = "dispatch"
  /\ result.out[1].name \notin {"SAY", "GOTO", "CHOICE", "SET", "TRIGGER", "IF"}
  /\ Arm(state_machine, "unhandled", "Ok")

NextMachine ==
  \/ NextCommand
  \/ SayCommand
  \/ FollowGoto
  \/ ChoiceCommand
  \/ \E line \in StdinLines : ReadLine(line)
  \/ Unimplemented
  \/ Unhandled

SpecMachine == InitMachine /\ [][NextMachine]_vars

\* The first top-level command after line number n, if there is one.
FirstCommandAfter(elements, n) ==
  LET later == {i \in (n + 2)..Len(elements) : elements[i].kind = "Command"}
  IN IF later = {} THEN None ELSE Some(elements[Min(later)])

\* next_command has just returned a GOTO command and follow_goto is called.
FollowsTheGoto ==
  /\ pc = "dispatch"
  /\ result.op = "next_command"
  /\ result.out # None
  /\ result.out[1].name = "GOTO"
  /\ result'.op = "follow_goto"

\* C39: when next_command has returned a GOTO command and follow_goto is
\* called next, the current line becomes the line of the marker the GOTO
\* names, so that the next next_command returns the first top-level command
\* after that marker; when the marker map has no such marker, follow_goto
\* fails.
C39_FollowGotoJumpsToNamedMarker ==
  [][FollowsTheGoto =>
       LET name == result.out[1].suffix[1]
       IN IF name \in DOMAIN state_machine.marker_map
          THEN /\ result'.res = "Ok"
               /\ state_machine'.current_line = state_machine.marker_map[name]
               /\ next_command(state_machine').out =
                    FirstCommandAfter(script, state_machine.marker_map[name])
          ELSE result'.res # "Ok"]_vars

====
